---- MODULE Spec2Model ----
(***************************************************************************)
(* Model of trending_digest.py: the run coordinator (advisory lock, main), *)
(* the run upsert (store_gh_period_run, store_hn_run) and the freshness-   *)
(* gated artifact cache (the get_or_generate functions).                   *)
(*                                                                         *)
(* Text values are atoms: a Python None and the empty string are both the  *)
(* falsy "" (every read in the code is `value or default`).  Timestamps    *)
(* written by NOW() and the surrogate ids of entry and artifact rows are   *)
(* not part of the state; run, repository and item ids are.                *)
(***************************************************************************)
EXTENDS Integers, Sequences, FiniteSets, TLC

(***************************************************************************)
(* Bounds of the model.                                                    *)
(***************************************************************************)
MaxDay == 1
MaxLen == 2
MaxCalls == 2
MaxTicks == 3
NProcs == 2

(***************************************************************************)
(* Program constants.                                                      *)
(***************************************************************************)
GITHUB_PERIODS == <<"daily", "weekly", "monthly">>
SUMMARY_REFRESH_DAYS == 60
HN_COMMENT_SAMPLE_SIZE == 16
SUMMARY_MODEL == "gpt-5-mini"
GH_SUMMARY_PROMPT_VERSION == "gh_v2"
HN_SUMMARY_PROMPT_VERSION == "hn_v1"
HN_COMMENT_ANALYSIS_PROMPT_VERSION == "hn_comments_v1"

VARIABLES
    gh_runs,      \* rows of table gh_runs
    gh_entries,   \* rows of table gh_entries
    gh_repos,     \* rows of table gh_repos
    hn_runs,      \* rows of table hn_runs
    hn_entries,   \* rows of table hn_entries
    hn_items,     \* rows of table hn_items
    gh_summaries,          \* rows of table gh_summaries
    hn_summaries,          \* rows of table hn_summaries
    hn_comment_analyses,   \* rows of table hn_comment_analyses
    today,        \* the calendar day, date.today() and the date of NOW()
    ticks,        \* number of times the calendar has advanced
    ret,          \* the latest get-or-generate call: arguments, result, effects
    focus,        \* the get-or-generate operation the behaviour calls
    pc,             \* per process: its position in main
    conn,           \* per process: its connection: "none", "open", "lost", "closed"
    stmt,           \* per process: the next statement of init_db
    lock_acquired,  \* per process: main's local lock_acquired
    period_idx,     \* per process: the next period of the scrape loop
    child,          \* per process: the position of backfill's loop over docs/
    daily_found,    \* per process: gh_scrape_results["daily"] is not empty
    lock_holder,    \* the session holding the advisory lock, 0 when free
    schema,         \* the tables and indexes that exist
    app_meta,       \* table app_meta: the set of keys holding "1"
    pages,          \* the daily page files under docs/
    pushed,         \* the days for which docs/ was committed and pushed
    emailed,        \* the days for which the email was sent
    wrote,          \* per process: what it has written so far
    denied,         \* per process: acquire_run_lock returned False
    cfg,            \* the comment settings read from the environment
    graph,          \* the items the Hacker News API serves for one story
    queues,         \* build_hn_comment_nodes: branch_queues
    nodes,          \* build_hn_comment_nodes: nodes, the candidate list
    visited,        \* build_hn_comment_nodes: visited
    fetched,        \* the comment ids requested from the API so far
    requests,       \* the item ids of the session.get calls, in order
    expanded,       \* the comment ids that passed the visited test, in order
    popped,         \* per top-level branch: entries popped from its queue
    branch,         \* the position of the for loop over branch_queues
    progressed,     \* build_hn_comment_nodes: progressed
    wpc,            \* the position in the walk: "idle", "story", "for", "done", "sampled"
    selected,       \* the result of select_hn_comment_sample
    total_comments_hint,  \* build_hn_comment_nodes: the caller's hint
    walk_total,       \* build_hn_comment_nodes: the count it returns
    stats,          \* the latest history-stats call: arguments and result
    story_ids,      \* scrape_hn_topstories: what the API serves for each id
    hn_cfg,         \* HN_MAX_ITEMS and HN_FETCH_WORKERS
    started,        \* number of futures a worker has taken up
    running,        \* the ranks whose fetch is running in a worker
    hn_fetched,     \* scrape_hn_topstories: fetched, in insertion order
    stories,        \* the list scrape_hn_topstories returns
    spc,            \* the position in the scrape: "idle", "pool", "done"
    calls,        \* number of store calls made so far
    last,         \* the arguments and the outcome of the latest store call
    repeated      \* the latest store call had the arguments of the call before it

storeVars == <<gh_runs, gh_entries, gh_repos, hn_runs, hn_entries, hn_items>>
artifactVars == <<gh_summaries, hn_summaries, hn_comment_analyses>>
cacheVars == <<gh_summaries, hn_summaries, hn_comment_analyses, today, ticks, ret, focus>>
procVars == <<pc, conn, stmt, lock_acquired, period_idx, child, daily_found, lock_holder,
              schema, app_meta, pages, pushed, emailed, wrote, denied>>
threadVars == <<cfg, graph, queues, nodes, visited, fetched, requests, expanded, popped,
                branch, progressed, wpc, selected, total_comments_hint, walk_total>>
queryVars == <<stats, story_ids, hn_cfg, started, running, hn_fetched, stories, spc>>
vars == <<gh_runs, gh_entries, gh_repos, hn_runs, hn_entries, hn_items, calls, last,
          repeated, gh_summaries, hn_summaries, hn_comment_analyses, today, ticks, ret,
          focus, pc, conn, stmt, lock_acquired, period_idx, child, daily_found,
          lock_holder,
          schema, app_meta, pages, pushed, emailed, wrote, denied, cfg, graph, queues,
          nodes, visited, fetched, requests, expanded, popped, branch, progressed, wpc,
          selected,
          total_comments_hint, walk_total, stats, story_ids, hn_cfg, started, running,
          hn_fetched, stories, spc>>

Max(S) == CHOOSE m \in S : \A x \in S : x <= m

(***************************************************************************)
(* normalize_text: " ".join(value.split()).  The text atoms of the model   *)
(* are single words, which the function returns as they are, and the       *)
(* blank " ", which it returns as the empty string.                        *)
(***************************************************************************)
normalize_text(value) == IF value = "" \/ value = " " THEN "" ELSE value

\* Python's `value or default`.
Or(value, default) == IF value = "" THEN default ELSE value

\* A BIGSERIAL id: rows of these tables are never deleted, so the next
\* value is above every id in use.
NextId(rows) == IF rows = {} THEN 1 ELSE Max({r.id : r \in rows}) + 1

(***************************************************************************)
(* store_gh_period_run                                                     *)
(***************************************************************************)
\* INSERT INTO gh_runs ... ON CONFLICT (run_date, period) DO UPDATE ...
UpsertGhRunAlwaysInsert(runs, run_day, period, source, n) ==
    runs \cup {[id |-> NextId(runs), run_date |-> run_day, period |-> period,
                source |-> source, repo_count |-> n]}

UpsertGhRun(runs, run_day, period, source, n) ==
    IF \E r \in runs : r.run_date = run_day /\ r.period = period
    THEN {IF r.run_date = run_day /\ r.period = period
          THEN [r EXCEPT !.source = source, !.repo_count = n]
          ELSE r : r \in runs}
    ELSE runs \cup {[id |-> NextId(runs), run_date |-> run_day, period |-> period,
                     source |-> source, repo_count |-> n]}

\* RETURNING id
GhRunId(runs, run_day, period) ==
    Max({r.id : r \in {q \in runs : q.run_date = run_day /\ q.period = period}})

\* DELETE FROM gh_entries WHERE run_id = %s
DeleteGhEntriesKeepAll(entries, run_id) == entries

DeleteGhEntriesOfEveryRun(entries, run_id) == {}

DeleteGhEntries(entries, run_id) == {e \in entries : e.run_id # run_id}

\* INSERT INTO gh_repos ... ON CONFLICT (full_name) DO UPDATE SET ...
UpsertGhRepoOverwrite(repos, name, url, description, language) ==
    IF \E r \in repos : r.full_name = name
    THEN {IF r.full_name = name
          THEN [r EXCEPT !.url = url, !.description = description, !.language = language]
          ELSE r : r \in repos}
    ELSE repos \cup {[id |-> NextId(repos), full_name |-> name, url |-> url,
                      description |-> description, language |-> language]}

UpsertGhRepo(repos, name, url, description, language) ==
    IF \E r \in repos : r.full_name = name
    THEN {IF r.full_name = name
          THEN [r EXCEPT !.url = url,
                         !.description = IF description # "No description"
                                         THEN description ELSE r.description,
                         !.language = IF language # "Unknown"
                                      THEN language ELSE r.language]
          ELSE r : r \in repos}
    ELSE repos \cup {[id |-> NextId(repos), full_name |-> name, url |-> url,
                      description |-> description, language |-> language]}

\* RETURNING id
GhRepoId(repos, name) == (CHOOSE r \in repos : r.full_name = name).id

\* UNIQUE (run_id, repo_id), UNIQUE (run_id, rank) of gh_entries
GhEntryConflictNone(entries, row) == FALSE

GhEntryConflict(entries, row) ==
    \E e \in entries :
        /\ e.run_id = row.run_id
        /\ (e.repo_id = row.repo_id \/ e.rank = row.rank)

\* One iteration of `for fallback_rank, repo in enumerate(repos, start=1)`
\* and the iterations after it.  raised: an INSERT violated a constraint and
\* the exception left the function (the connection is in autocommit mode:
\* every statement before the failing one stays committed).
RECURSIVE GhLoop(_, _, _, _)
GhLoop(t, run_id, repos, i) ==
    IF i > Len(repos) THEN [t EXCEPT !.raised = FALSE]
    ELSE
      LET repo == repos[i]
          rank == IF repo.rank # 0 THEN repo.rank ELSE i
          name == normalize_text(repo.name)
      IN  IF name = "" THEN GhLoop(t, run_id, repos, i + 1)
          ELSE
            LET url == normalize_text(Or(repo.url, "https://github.com/" \o name))
                description == normalize_text(Or(repo.description, "No description"))
                language == normalize_text(Or(repo.language, "Unknown"))
                stars == normalize_text(Or(repo.stars, "N/A"))
                period_stars == normalize_text(repo.period_stars)
                repos2 == UpsertGhRepo(t.repos, name, url, description, language)
                row == [run_id |-> run_id, repo_id |-> GhRepoId(repos2, name),
                        rank |-> rank, stars_text |-> stars,
                        period_stars_text |-> period_stars,
                        description |-> description, language |-> language]
            IN  IF GhEntryConflict(t.entries, row)
                THEN [t EXCEPT !.repos = repos2, !.raised = TRUE]
                ELSE GhLoop([t EXCEPT !.repos = repos2,
                                      !.entries = t.entries \cup {row}],
                            run_id, repos, i + 1)

store_gh_period_run(runs, entries, repos_table, run_day, period, repos, source) ==
    LET runs2 == UpsertGhRun(runs, run_day, period, source, Len(repos))
        run_id == GhRunId(runs2, run_day, period)
    IN  GhLoop([runs |-> runs2, entries |-> DeleteGhEntries(entries, run_id),
                repos |-> repos_table, raised |-> FALSE, run_id |-> run_id],
               run_id, repos, 1)

(***************************************************************************)
(* store_hn_run                                                            *)
(***************************************************************************)
\* INSERT INTO hn_runs ... ON CONFLICT (run_date, feed) DO UPDATE ...
UpsertHnRunAlwaysInsert(runs, run_day, source, n) ==
    runs \cup {[id |-> NextId(runs), run_date |-> run_day, feed |-> "topstories",
                source |-> source, item_count |-> n]}

UpsertHnRun(runs, run_day, source, n) ==
    IF \E r \in runs : r.run_date = run_day /\ r.feed = "topstories"
    THEN {IF r.run_date = run_day /\ r.feed = "topstories"
          THEN [r EXCEPT !.source = source, !.item_count = n]
          ELSE r : r \in runs}
    ELSE runs \cup {[id |-> NextId(runs), run_date |-> run_day, feed |-> "topstories",
                     source |-> source, item_count |-> n]}

HnRunId(runs, run_day) ==
    Max({r.id : r \in {q \in runs : q.run_date = run_day /\ q.feed = "topstories"}})

\* DELETE FROM hn_entries WHERE run_id = %s
DeleteHnEntries(entries, run_id) == {e \in entries : e.run_id # run_id}

\* INSERT INTO hn_items ... ON CONFLICT (id) DO UPDATE SET (every column)
UpsertHnItem(items, row) == {r \in items : r.id # row.id} \cup {row}

\* UNIQUE (run_id, item_id), UNIQUE (run_id, rank) of hn_entries
HnEntryConflictNone(entries, row) == FALSE

HnEntryConflict(entries, row) ==
    \E e \in entries :
        /\ e.run_id = row.run_id
        /\ (e.item_id = row.item_id \/ e.rank = row.rank)

RECURSIVE HnLoop(_, _, _, _)
HnLoop(t, run_id, items, i) ==
    IF i > Len(items) THEN [t EXCEPT !.raised = FALSE]
    ELSE
      LET item == items[i]
          rank == IF item.rank # 0 THEN item.rank ELSE i
          irow == [id |-> item.item_id,
                   title |-> normalize_text(Or(item.title, "Untitled")),
                   url |-> normalize_text(item.url),
                   author |-> normalize_text(Or(item.author, "unknown")),
                   text |-> item.text,
                   item_type |-> normalize_text(Or(item.item_type, "story"))]
          items2 == UpsertHnItem(t.items, irow)
          row == [run_id |-> run_id, item_id |-> item.item_id, rank |-> rank]
      IN  IF HnEntryConflict(t.entries, row)
          THEN [t EXCEPT !.items = items2, !.raised = TRUE]
          ELSE HnLoop([t EXCEPT !.items = items2, !.entries = t.entries \cup {row}],
                      run_id, items, i + 1)

store_hn_run(runs, entries, items_table, run_day, items, source) ==
    LET runs2 == UpsertHnRun(runs, run_day, source, Len(items))
        run_id == HnRunId(runs2, run_day)
    IN  HnLoop([runs |-> runs2, entries |-> DeleteHnEntries(entries, run_id),
                items |-> items_table, raised |-> FALSE, run_id |-> run_id],
               run_id, items, 1)

(***************************************************************************)
(* The artifact cache.  A generated_at timestamp is the calendar day and   *)
(* the position of the instant within the day's inserts; an artifact row   *)
(* is never written with the timestamp of another row of its table.        *)
(***************************************************************************)
Later(a, b) == a.day > b.day \/ (a.day = b.day /\ a.seq > b.seq)

\* ORDER BY generated_at DESC LIMIT 1: the result set, empty or one row.
LatestOldest(rows) == {r \in rows : \A q \in rows : q = r \/ Later(q.generated_at, r.generated_at)}

Latest(rows) == {r \in rows : \A q \in rows : q = r \/ Later(r.generated_at, q.generated_at)}

\* NOW() on day `day`.
Now(rows, day) == [day |-> day, seq |-> Cardinality(rows) + 1]

\* The age test; its mutants take one day too many or compare the other way.
summary_is_fresh_le(generated_at, target_day) ==
    (target_day - generated_at.day) <= SUMMARY_REFRESH_DAYS

summary_is_fresh(generated_at, target_day) ==
    (target_day - generated_at.day) < SUMMARY_REFRESH_DAYS

get_latest_gh_summary(rows, repo_id) ==
    Latest({r \in rows : /\ r.repo_id = repo_id
                         /\ r.model = SUMMARY_MODEL
                         /\ r.prompt_version = GH_SUMMARY_PROMPT_VERSION})

cache_gh_summary(rows, repo_id, summary_text, readme_hash, stamp) ==
    rows \cup {[repo_id |-> repo_id, model |-> SUMMARY_MODEL,
                prompt_version |-> GH_SUMMARY_PROMPT_VERSION,
                summary_text |-> summary_text, readme_hash |-> readme_hash,
                generated_at |-> stamp]}

\* cache_gh_summary_if_missing: the stamp is noon of the page's day.
cache_gh_summary_if_missing(rows, repo_id, summary_text, summary_day) ==
    IF \E r \in rows : /\ r.repo_id = repo_id /\ r.model = SUMMARY_MODEL
                       /\ r.prompt_version = GH_SUMMARY_PROMPT_VERSION
                       /\ r.generated_at.day = summary_day
    THEN rows
    ELSE cache_gh_summary(rows, repo_id, summary_text, "",
                          [day |-> summary_day, seq |-> 0])

\* generated: what fetch_readme and generate_gh_summary produce, "" when the
\* model call raised or returned no text.  called: generate_gh_summary ran.
get_or_generate_gh_summary(rows, repo_id, run_day, generated) ==
    LET latest == get_latest_gh_summary(rows, repo_id)
    IN  IF latest # {} /\ \A l \in latest : summary_is_fresh(l.generated_at, run_day)
        THEN [result |-> (CHOOSE l \in latest : TRUE).summary_text,
              rows |-> rows, called |-> FALSE]
        ELSE IF generated # ""
        THEN [result |-> generated,
              rows |-> cache_gh_summary(rows, repo_id, generated, "h", Now(rows, today)),
              called |-> TRUE]
        ELSE IF latest # {}
        THEN [result |-> (CHOOSE l \in latest : TRUE).summary_text,
              rows |-> rows, called |-> TRUE]
        ELSE [result |-> "", rows |-> rows, called |-> TRUE]

get_latest_hn_summary(rows, item_id) ==
    Latest({r \in rows : /\ r.item_id = item_id
                         /\ r.model = SUMMARY_MODEL
                         /\ r.prompt_version = HN_SUMMARY_PROMPT_VERSION})

\* Mutant: the item's row is replaced instead of a row being added.
cache_hn_summary_replace(rows, item_id, summary_text) ==
    {r \in rows : r.item_id # item_id}
        \cup {[item_id |-> item_id, model |-> SUMMARY_MODEL,
                prompt_version |-> HN_SUMMARY_PROMPT_VERSION,
                summary_text |-> summary_text,
                generated_at |-> Now(rows, today)]}

cache_hn_summary(rows, item_id, summary_text) ==
    rows \cup {[item_id |-> item_id, model |-> SUMMARY_MODEL,
                prompt_version |-> HN_SUMMARY_PROMPT_VERSION,
                summary_text |-> summary_text,
                generated_at |-> Now(rows, today)]}

\* Mutant: a failed generation yields the sentinel even when a row is stored.
get_or_generate_hn_summary_no_fallback(rows, item_id, run_day, generated) ==
    LET latest == get_latest_hn_summary(rows, item_id)
    IN  IF latest # {} /\ \A l \in latest : summary_is_fresh(l.generated_at, run_day)
        THEN [result |-> (CHOOSE l \in latest : TRUE).summary_text,
              rows |-> rows, called |-> FALSE]
        ELSE IF generated # ""
        THEN [result |-> generated,
              rows |-> cache_hn_summary(rows, item_id, generated),
              called |-> TRUE]
        ELSE [result |-> "", rows |-> rows, called |-> TRUE]

get_or_generate_hn_summary(rows, item_id, run_day, generated) ==
    LET latest == get_latest_hn_summary(rows, item_id)
    IN  IF latest # {} /\ \A l \in latest : summary_is_fresh(l.generated_at, run_day)
        THEN [result |-> (CHOOSE l \in latest : TRUE).summary_text,
              rows |-> rows, called |-> FALSE]
        ELSE IF generated # ""
        THEN [result |-> generated,
              rows |-> cache_hn_summary(rows, item_id, generated),
              called |-> TRUE]
        ELSE IF latest # {}
        THEN [result |-> (CHOOSE l \in latest : TRUE).summary_text,
              rows |-> rows, called |-> TRUE]
        ELSE [result |-> "", rows |-> rows, called |-> TRUE]

get_latest_hn_comment_analysis(rows, item_id) ==
    Latest({r \in rows : /\ r.item_id = item_id
                         /\ r.model = SUMMARY_MODEL
                         /\ r.prompt_version = HN_COMMENT_ANALYSIS_PROMPT_VERSION
                         /\ r.sample_size = HN_COMMENT_SAMPLE_SIZE})

cache_hn_comment_analysis(rows, item_id, analysis_text, sampled_comments, total_comments) ==
    rows \cup {[item_id |-> item_id, model |-> SUMMARY_MODEL,
                prompt_version |-> HN_COMMENT_ANALYSIS_PROMPT_VERSION,
                sample_size |-> HN_COMMENT_SAMPLE_SIZE,
                sampled_comments |-> sampled_comments,
                total_comments |-> total_comments,
                analysis_text |-> analysis_text,
                generated_at |-> Now(rows, today)]}

\* The dict the function returns; NoAnalysis is its None.
NoAnalysis == [analysis_text |-> "", sampled_comments |-> -1, total_comments |-> -1]

Analysis(text, sampled, total) ==
    [analysis_text |-> text, sampled_comments |-> sampled, total_comments |-> total]

\* sampled, total_comments: what build_hn_comment_nodes and
\* select_hn_comment_sample produce for the item (sampled: the size of the
\* sample).  generated: what generate_hn_comment_analysis returns.
get_or_generate_hn_comment_analysis(rows, item_id, run_day, sampled, total_comments, generated) ==
    LET latest == get_latest_hn_comment_analysis(rows, item_id)
        l == CHOOSE x \in latest : TRUE
    IN  IF latest # {} /\ summary_is_fresh(l.generated_at, run_day)
        THEN [result |-> Analysis(l.analysis_text, l.sampled_comments, l.total_comments),
              rows |-> rows, called |-> FALSE, walked |-> FALSE]
        ELSE IF sampled = 0
        THEN [result |-> NoAnalysis, rows |-> rows, called |-> FALSE, walked |-> TRUE]
        ELSE IF generated = ""
        THEN [result |-> IF latest # {}
                         THEN Analysis(l.analysis_text, l.sampled_comments,
                                       l.total_comments)
                         ELSE NoAnalysis,
              rows |-> rows, called |-> TRUE, walked |-> TRUE]
        ELSE [result |-> Analysis(generated, sampled, total_comments),
              rows |-> cache_hn_comment_analysis(rows, item_id, generated, sampled,
                                                 total_comments),
              called |-> TRUE, walked |-> TRUE]

(***************************************************************************)
(* The run coordinator: the digest processes, their sessions and the       *)
(* advisory lock.                                                          *)
(***************************************************************************)
Procs == 1..NProcs

\* The statements of init_db, in order: the object each one creates.
InitDbStatements ==
    <<"app_meta", "gh_repos", "gh_runs", "gh_entries", "gh_summaries", "hn_items",
      "hn_runs", "hn_entries", "hn_summaries", "hn_comment_analyses",
      "idx_gh_entries_repo_id", "idx_gh_runs_period_date",
      "idx_gh_summaries_repo_generated", "idx_hn_entries_item_id",
      "idx_hn_runs_feed_date", "idx_hn_summaries_item_generated",
      "idx_hn_comment_analyses_item_generated">>

\* SELECT pg_try_advisory_lock(RUN_LOCK_KEY): session-level, granted when no
\* other session holds the key, never waits.
pg_try_advisory_lock_always(holder, p) == [granted |-> TRUE, holder |-> p]

pg_try_advisory_lock(holder, p) ==
    IF holder = 0 \/ holder = p
    THEN [granted |-> TRUE, holder |-> p]
    ELSE [granted |-> FALSE, holder |-> holder]

\* SELECT pg_advisory_unlock(RUN_LOCK_KEY)
pg_advisory_unlock(holder, p) == IF holder = p THEN 0 ELSE holder

\* conn.close(): the session ends and the server drops its advisory locks.
conn_close_leak(holder, p) == holder

conn_close(holder, p) == IF holder = p THEN 0 ELSE holder

\* No walk has started.
ThreadIdle ==
    /\ cfg = [max_nodes |-> 0, max_depth |-> 0, min_text_len |-> 0, max_per_branch |-> 0,
              sample_size |-> 0]
    /\ graph = <<>> /\ queues = <<>> /\ nodes = <<>> /\ visited = {} /\ fetched = {}
    /\ requests = <<>> /\ expanded = <<>>
    /\ popped = <<>> /\ branch = 0 /\ progressed = FALSE /\ wpc = "idle"
    /\ selected = <<>>
    /\ total_comments_hint = 0 /\ walk_total = 0

\* No history-stats call and no scrape of the top stories has been made.
NoStats ==
    [feed |-> "none", entity |-> 0, up_to_day |-> 0, earliest |-> -1, streak_days |-> 0,
     seen_before |-> FALSE]

QueryIdle ==
    /\ stats = NoStats
    /\ story_ids = <<>> /\ hn_cfg = [max_items |-> 0, fetch_workers |-> 1]
    /\ started = 0 /\ running = {} /\ hn_fetched = <<>> /\ stories = <<>>
    /\ spc = "idle"

\* No process has started.
ProcsIdle ==
    /\ pc = [p \in Procs |-> "idle"]
    /\ conn = [p \in Procs |-> "none"]
    /\ stmt = [p \in Procs |-> 1]
    /\ lock_acquired = [p \in Procs |-> FALSE]
    /\ period_idx = [p \in Procs |-> 1]
    /\ child = [p \in Procs |-> 1]
    /\ daily_found = [p \in Procs |-> FALSE]
    /\ lock_holder = 0
    /\ schema = {}
    /\ app_meta = {}
    /\ pushed = {}
    /\ emailed = {}
    /\ wrote = [p \in Procs |-> {}]
    /\ denied = [p \in Procs |-> FALSE]

(***************************************************************************)
(* The store operations called on their own, with every ranked list of at  *)
(* most MaxLen entries: the lists include a repeated entity, a repeated    *)
(* rank, an entry without a name and entries without a rank.               *)
(***************************************************************************)
\* No get-or-generate call made yet.
NoRet == [op |-> "none", entity |-> 0, run_day |-> 0, latest |-> {}, result |-> "",
          called |-> FALSE, walked |-> FALSE, inserted |-> FALSE, sampled |-> 0,
          failed |-> FALSE]

Days == 1..MaxDay

SeqsUpTo(S, n) == UNION {[1..k -> S] : k \in 0..n}

\* What a scraped or parsed repository carries: all descriptive fields
\* missing, or all of them informative.
GhMetas ==
    {[url |-> "", description |-> "", language |-> "", stars |-> "", period_stars |-> ""],
     [url |-> "u1", description |-> "d1", language |-> "py", stars |-> "5",
      period_stars |-> "1"]}

\* The entries of a ranked list: named ones with a rank (0: none given) and
\* one without a name, which the loop skips before it reads anything else.
GhInputs ==
    {[rank |-> r, name |-> n, url |-> m.url, description |-> m.description,
      language |-> m.language, stars |-> m.stars, period_stars |-> m.period_stars] :
        r \in 0..MaxLen, n \in {"a", "b"}, m \in GhMetas}
    \cup {[rank |-> 1, name |-> "", url |-> "", description |-> "", language |-> "",
            stars |-> "", period_stars |-> ""]}

\* main stores every period with source "live"; the backfill stores daily
\* runs with source "backfill".
GhCallKinds ==
    {<<GITHUB_PERIODS[i], "live">> : i \in 1..Len(GITHUB_PERIODS)}
        \cup {<<"daily", "backfill">>}

HnMetas ==
    {[title |-> "t1", url |-> "", author |-> "", text |-> "", item_type |-> "story"],
     [title |-> "t2", url |-> "u1", author |-> "bob", text |-> "x1",
      item_type |-> "story"]}

HnInputs ==
    {[rank |-> r, item_id |-> n, title |-> m.title, url |-> m.url, author |-> m.author,
      text |-> m.text, item_type |-> m.item_type] :
        r \in 0..MaxLen, n \in {11, 12}, m \in HnMetas}

NoCall == [fn |-> "none", run_day |-> 0, period |-> "", source |-> "", input |-> <<>>,
           raised |-> FALSE]

SameArgs(a, b) ==
    /\ a.fn = b.fn /\ a.run_day = b.run_day /\ a.period = b.period
    /\ a.source = b.source /\ a.input = b.input

StoreInit ==
    /\ gh_runs = {} /\ gh_entries = {} /\ gh_repos = {}
    /\ hn_runs = {} /\ hn_entries = {} /\ hn_items = {}
    /\ calls = 0
    /\ last = NoCall
    /\ repeated = FALSE
    /\ gh_summaries = {} /\ hn_summaries = {} /\ hn_comment_analyses = {}
    /\ today = 1 /\ ticks = 0 /\ ret = NoRet /\ focus = "none"
    /\ ProcsIdle /\ pages = {} /\ ThreadIdle /\ QueryIdle

StoreGhPeriodRun ==
    \E run_day \in Days, kind \in GhCallKinds, repos \in SeqsUpTo(GhInputs, MaxLen) :
        /\ calls < MaxCalls
        /\ LET r == store_gh_period_run(gh_runs, gh_entries, gh_repos,
                                        run_day, kind[1], repos, kind[2])
           IN  /\ gh_runs' = r.runs
               /\ gh_entries' = r.entries
               /\ gh_repos' = r.repos
               /\ last' = [fn |-> "gh", run_day |-> run_day, period |-> kind[1],
                           source |-> kind[2], input |-> repos, raised |-> r.raised]
               /\ repeated' = SameArgs(last', last)
        /\ calls' = calls + 1
        /\ UNCHANGED <<hn_runs, hn_entries, hn_items>>
        /\ UNCHANGED cacheVars
        /\ UNCHANGED <<procVars, threadVars, queryVars>>

StoreHnRun ==
    \E run_day \in Days, items \in SeqsUpTo(HnInputs, MaxLen) :
        /\ calls < MaxCalls
        /\ LET r == store_hn_run(hn_runs, hn_entries, hn_items, run_day, items, "live")
           IN  /\ hn_runs' = r.runs
               /\ hn_entries' = r.entries
               /\ hn_items' = r.items
               /\ last' = [fn |-> "hn", run_day |-> run_day, period |-> "topstories",
                           source |-> "live", input |-> items, raised |-> r.raised]
               /\ repeated' = SameArgs(last', last)
        /\ calls' = calls + 1
        /\ UNCHANGED <<gh_runs, gh_entries, gh_repos>>
        /\ UNCHANGED cacheVars
        /\ UNCHANGED <<procVars, threadVars, queryVars>>

StoreNext == StoreHnRun \/ StoreGhPeriodRun

SpecStore == StoreInit /\ [][StoreNext]_vars

(***************************************************************************)
(* Properties of the run upsert.                                           *)
(***************************************************************************)
\* The entries of the run the latest call stored, as (entity, rank) pairs.
LastGhRun == {r \in gh_runs : r.run_date = last.run_day /\ r.period = last.period}
LastHnRun == {r \in hn_runs : r.run_date = last.run_day /\ r.feed = "topstories"}

LastGhEntries ==
    {e \in gh_entries : \E r \in LastGhRun : e.run_id = r.id}
LastHnEntries ==
    {e \in hn_entries : \E r \in LastHnRun : e.run_id = r.id}

RankAt(L, i) == IF L[i].rank # 0 THEN L[i].rank ELSE i

\* C4: a store call with the arguments of the call right before it leaves
\* every run, entry and entity row as the first call left it.
C4_Idempotent ==
    [][(calls' # calls /\ repeated') => UNCHANGED storeVars]_vars

C4_Witness ==
    /\ repeated /\ ~last.raised /\ Len(last.input) = 2
    /\ (LastGhEntries # {} \/ LastHnEntries # {})

\* C5: after a store call that returns, the entries of its run are exactly
\* the named entries of its list, each with its rank, one row per entry.
C5_Converges ==
    /\ (last.fn = "gh" /\ ~last.raised) =>
          /\ {<<(CHOOSE r \in gh_repos : r.id = e.repo_id).full_name, e.rank>> :
                 e \in LastGhEntries}
               = {<<last.input[i].name, RankAt(last.input, i)>> :
                     i \in {j \in 1..Len(last.input) : last.input[j].name # ""}}
          /\ Cardinality(LastGhEntries)
               = Cardinality({j \in 1..Len(last.input) : last.input[j].name # ""})
    /\ (last.fn = "hn" /\ ~last.raised) =>
          /\ {<<e.item_id, e.rank>> : e \in LastHnEntries}
               = {<<last.input[i].item_id, RankAt(last.input, i)>> :
                     i \in 1..Len(last.input)}
          /\ Cardinality(LastHnEntries) = Len(last.input)

\* The second call on a run replaced a ranking by a different one.
C5_Witness ==
    /\ calls = 2 /\ ~repeated /\ ~last.raised
    /\ Len(last.input) = 1
    /\ Cardinality(LastGhEntries) = 1
    /\ Cardinality(gh_repos) = 2
    /\ Cardinality(gh_runs) = 1

\* C6: at most one run row for each (run date, period) and (run date, feed).
C6_OneRunPerKey ==
    /\ \A r1, r2 \in gh_runs :
          (r1.run_date = r2.run_date /\ r1.period = r2.period) => r1 = r2
    /\ \A r1, r2 \in hn_runs :
          (r1.run_date = r2.run_date /\ r1.feed = r2.feed) => r1 = r2

\* A day was stored again, live after backfill, and still has one run.
C6_Witness ==
    /\ calls = 2 /\ last.fn = "gh" /\ last.source = "live"
    /\ Cardinality(gh_runs) = 1
    /\ \E r \in gh_runs : r.repo_count = 2

\* C7: no run has two entries with one rank or two entries for one entity.
C7_UniqueEntries ==
    /\ \A e1, e2 \in gh_entries :
          (e1.run_id = e2.run_id /\ (e1.rank = e2.rank \/ e1.repo_id = e2.repo_id))
              => e1 = e2
    /\ \A e1, e2 \in hn_entries :
          (e1.run_id = e2.run_id /\ (e1.rank = e2.rank \/ e1.item_id = e2.item_id))
              => e1 = e2

\* A list with a repeated rank was stored: the call raised.
C7_Witness ==
    /\ last.fn = "hn" /\ last.raised /\ Len(last.input) = 2
    /\ last.input[1].item_id # last.input[2].item_id
    /\ RankAt(last.input, 1) = RankAt(last.input, 2)
    /\ LastHnEntries # {}

\* C8: a store call that fails leaves the run, its entries and the entity
\* rows as they were before the call.
C8_FailedStoreChangesNothing ==
    [][(calls' # calls /\ last'.raised) => UNCHANGED storeVars]_vars

\* C9: a descriptive field holding an informative value is never replaced
\* by an empty value or a placeholder.
Placeholders == {"No description", "Unknown", "Untitled", "unknown", ""}

Kept(old, new) == old \notin Placeholders => new \notin Placeholders

C9_NonDestructiveUpsert ==
    [][/\ \A r \in gh_repos : \A q \in gh_repos' :
             r.id = q.id => /\ Kept(r.description, q.description)
                            /\ Kept(r.language, q.language)
       /\ \A r \in hn_items : \A q \in hn_items' :
             r.id = q.id => /\ Kept(r.title, q.title)
                            /\ Kept(r.url, q.url)
                            /\ Kept(r.author, q.author)
                            /\ Kept(r.text, q.text)]_vars

(***************************************************************************)
(* The get-or-generate operations called on their own while the calendar   *)
(* advances.  The tables start empty or hold rows left by an earlier       *)
(* prompt version and another sample size.  The three operations read and  *)
(* write one table each, so a behaviour calls one of them (focus).         *)
(***************************************************************************)
CacheRepos == {1, 2}
CacheItems == {11}
Generated == {"", "g1", "g2"}
Jumps == {1, SUMMARY_REFRESH_DAYS - 1}

LegacyGhSummaries ==
    {[repo_id |-> 1, model |-> SUMMARY_MODEL, prompt_version |-> "gh_v1",
      summary_text |-> "old", readme_hash |-> "h",
      generated_at |-> [day |-> 1, seq |-> 1]]}

LegacyHnAnalyses ==
    {[item_id |-> 11, model |-> SUMMARY_MODEL,
      prompt_version |-> HN_COMMENT_ANALYSIS_PROMPT_VERSION,
      sample_size |-> HN_COMMENT_SAMPLE_SIZE + 1, sampled_comments |-> 1,
      total_comments |-> 1, analysis_text |-> "old",
      generated_at |-> [day |-> 1, seq |-> 1]]}

CacheInit ==
    /\ gh_runs = {} /\ gh_entries = {} /\ gh_repos = {}
    /\ hn_runs = {} /\ hn_entries = {} /\ hn_items = {}
    /\ calls = 0 /\ last = NoCall /\ repeated = FALSE
    /\ gh_summaries \in {{}, LegacyGhSummaries}
    /\ hn_summaries = {}
    /\ hn_comment_analyses \in {{}, LegacyHnAnalyses}
    /\ today = 1 /\ ticks = 0 /\ ret = NoRet
    /\ focus \in {"gh", "hn", "analysis"}
    /\ ProcsIdle /\ pages = {} /\ ThreadIdle /\ QueryIdle

CacheTick ==
    \E j \in Jumps :
        /\ ticks < MaxTicks
        /\ today' = today + j
        /\ ticks' = ticks + 1
        /\ UNCHANGED <<artifactVars, ret, focus>>
        /\ UNCHANGED <<storeVars, calls, last, repeated>>
        /\ UNCHANGED <<procVars, threadVars, queryVars>>

GhSummaryCall ==
    \E repo_id \in CacheRepos, generated \in Generated :
        LET r == get_or_generate_gh_summary(gh_summaries, repo_id, today, generated)
        IN  /\ focus = "gh"
            /\ gh_summaries' = r.rows
            /\ ret' = [op |-> "gh", entity |-> repo_id, run_day |-> today,
                       latest |-> get_latest_gh_summary(gh_summaries, repo_id),
                       result |-> r.result, called |-> r.called, walked |-> FALSE,
                       inserted |-> r.rows # gh_summaries, sampled |-> 0,
                       failed |-> r.called /\ generated = ""]
            /\ UNCHANGED <<hn_summaries, hn_comment_analyses, today, ticks, focus>>
            /\ UNCHANGED <<storeVars, calls, last, repeated>>
        /\ UNCHANGED <<procVars, threadVars, queryVars>>

HnSummaryCall ==
    \E item_id \in CacheItems, generated \in Generated :
        LET r == get_or_generate_hn_summary(hn_summaries, item_id, today, generated)
        IN  /\ focus = "hn"
            /\ hn_summaries' = r.rows
            /\ ret' = [op |-> "hn", entity |-> item_id, run_day |-> today,
                       latest |-> get_latest_hn_summary(hn_summaries, item_id),
                       result |-> r.result, called |-> r.called, walked |-> FALSE,
                       inserted |-> r.rows # hn_summaries, sampled |-> 0,
                       failed |-> r.called /\ generated = ""]
            /\ UNCHANGED <<gh_summaries, hn_comment_analyses, today, ticks, focus>>
            /\ UNCHANGED <<storeVars, calls, last, repeated>>
        /\ UNCHANGED <<procVars, threadVars, queryVars>>

HnCommentAnalysisCall ==
    \E item_id \in CacheItems, generated \in Generated, sampled \in {0, 2} :
        LET r == get_or_generate_hn_comment_analysis(hn_comment_analyses, item_id,
                                                     today, sampled, 5, generated)
        IN  /\ focus = "analysis"
            /\ hn_comment_analyses' = r.rows
            /\ ret' = [op |-> "analysis", entity |-> item_id, run_day |-> today,
                       latest |-> get_latest_hn_comment_analysis(hn_comment_analyses,
                                                                 item_id),
                       result |-> r.result, called |-> r.called, walked |-> r.walked,
                       inserted |-> r.rows # hn_comment_analyses, sampled |-> sampled,
                       failed |-> r.called /\ generated = ""]
            /\ UNCHANGED <<gh_summaries, hn_summaries, today, ticks, focus>>
            /\ UNCHANGED <<storeVars, calls, last, repeated>>
        /\ UNCHANGED <<procVars, threadVars, queryVars>>

\* The backfill's cache_gh_summary_if_missing for the repository listed on
\* the page of day 1.
BackfilledRepo == 1

BackfillSummaryCall ==
    \E repo_id \in {BackfilledRepo} :
        /\ focus = "gh"
        /\ gh_summaries' = cache_gh_summary_if_missing(gh_summaries, repo_id, "s0", 1)
        /\ gh_summaries' # gh_summaries
        /\ UNCHANGED <<hn_summaries, hn_comment_analyses, today, ticks, focus, ret>>
        /\ UNCHANGED <<storeVars, calls, last, repeated>>
        /\ UNCHANGED <<procVars, threadVars, queryVars>>

CacheNext ==
    \/ CacheTick \/ GhSummaryCall \/ HnSummaryCall \/ HnCommentAnalysisCall
    \/ BackfillSummaryCall

SpecCache == CacheInit /\ [][CacheNext]_vars

(***************************************************************************)
(* Properties of the artifact cache.                                       *)
(***************************************************************************)
\* What the call would return for the stored row l.
Reused(l) ==
    IF ret.op = "analysis"
    THEN Analysis(l.analysis_text, l.sampled_comments, l.total_comments)
    ELSE l.summary_text

RetFresh ==
    /\ ret.latest # {}
    /\ \A l \in ret.latest : ret.run_day - l.generated_at.day < SUMMARY_REFRESH_DAYS

RetReusedSilently ==
    /\ ret.latest # {}
    /\ \A l \in ret.latest : ret.result = Reused(l)
    /\ ~ret.called
    /\ ~ret.inserted

\* C10 as stated: the stored artifact is returned unchanged, with no
\* generation call and no insert, exactly when it is under 60 days old;
\* from 60 days on generation is invoked.
C10_StaleInvokesGeneration ==
    ret.op # "none" =>
        /\ RetFresh <=> RetReusedSilently
        /\ (ret.latest # {} /\ ~RetFresh) => ret.called

\* C10 as amended: from 60 days on the summary operations invoke generation;
\* the comment-analysis operation walks and samples the thread and invokes
\* generation exactly when the sample is not empty.
C10_FreshnessGate ==
    ret.op # "none" =>
        /\ RetFresh <=> RetReusedSilently
        /\ (ret.latest # {} /\ ~RetFresh) =>
              IF ret.op = "analysis"
              THEN ret.walked /\ (ret.called <=> ret.sampled > 0)
              ELSE ret.called

\* An analysis generated 59 days before the reference day is reused.
C10_Witness ==
    /\ ret.op = "analysis"
    /\ \E l \in ret.latest : ret.run_day - l.generated_at.day = SUMMARY_REFRESH_DAYS - 1
    /\ RetReusedSilently

RetStale ==
    /\ ret.latest # {}
    /\ \A l \in ret.latest : ret.run_day - l.generated_at.day >= SUMMARY_REFRESH_DAYS

\* C11: when no fresh summary exists and the generation attempt fails,
\* the summary operations return the text of the most recent matching
\* artifact whatever its age, or the empty sentinel when there is none, and
\* insert no row.
C11_SummaryFallback ==
    (ret.op \in {"gh", "hn"} /\ ret.failed) =>
        /\ ~ret.inserted
        /\ ~RetFresh
        /\ \A l \in ret.latest : ret.result = l.summary_text
        /\ ret.latest = {} => ret.result = ""

\* A Hacker News summary older than the refresh window is returned after a
\* failed generation.
C11_Witness ==
    /\ ret.op = "hn" /\ ret.failed /\ RetStale
    /\ \A l \in ret.latest : ret.result = l.summary_text /\ ret.result # ""

\* C12: whenever the comment-analysis operation produces no new analysis
\* and a matching stored analysis exists, it returns that stored analysis
\* whatever its age.
C12_AnalysisFallback ==
    (ret.op = "analysis" /\ ~ret.inserted /\ ret.latest # {}) =>
        \A l \in ret.latest : ret.result = Reused(l)

Matches(op, entity, r) ==
    /\ r.model = SUMMARY_MODEL
    /\ IF op = "gh"
       THEN r.repo_id = entity /\ r.prompt_version = GH_SUMMARY_PROMPT_VERSION
       ELSE IF op = "hn"
       THEN r.item_id = entity /\ r.prompt_version = HN_SUMMARY_PROMPT_VERSION
       ELSE /\ r.item_id = entity
            /\ r.prompt_version = HN_COMMENT_ANALYSIS_PROMPT_VERSION
            /\ r.sample_size = HN_COMMENT_SAMPLE_SIZE

TableOf(op) ==
    IF op = "gh" THEN gh_summaries
    ELSE IF op = "hn" THEN hn_summaries ELSE hn_comment_analyses

\* C13: every artifact row once written stays as it is, a step only adds
\* rows, and the row a call takes as authoritative is the one with the
\* latest generation timestamp among the rows of the entity and version.
C13_AppendOnly ==
    [][/\ gh_summaries \subseteq gh_summaries'
       /\ hn_summaries \subseteq hn_summaries'
       /\ hn_comment_analyses \subseteq hn_comment_analyses'
       /\ ret' # ret =>
            LET matching == {r \in TableOf(ret'.op) : Matches(ret'.op, ret'.entity, r)}
            IN  /\ ret'.latest \subseteq matching
                /\ matching # {} => ret'.latest # {}
                /\ \A l \in ret'.latest : \A q \in matching :
                       q = l \/ Later(l.generated_at, q.generated_at)]_vars

\* A summary was refreshed: two rows of one item and version are stored and
\* the call read the newer one.
C13_Witness ==
    /\ ret.op = "hn" /\ ~ret.inserted
    /\ \E l \in ret.latest : \E q \in hn_summaries :
           /\ q.item_id = l.item_id /\ q.prompt_version = l.prompt_version
           /\ Later(l.generated_at, q.generated_at)

(***************************************************************************)
(* main: the digest processes running against one store, one statement or  *)
(* one call of main per step.                                              *)
(***************************************************************************)
\* The page docs/<day 0>/index.html of an earlier version of the program,
\* as parse_gh_daily_html reads it.
HistoricDay == 0

HistoricRepos ==
    <<[rank |-> 1, name |-> "a", url |-> "u1", description |-> "d1", language |-> "py",
       stars |-> "5", period_stars |-> "1", summary |-> "s0"]>>

\* What scrape_trending_repos returns: ranks are positions; [] also stands
\* for the scrape that raised.
ScrapeGh ==
    {<<>>,
     <<[rank |-> 1, name |-> "a", url |-> "u1", description |-> "d1", language |-> "py",
        stars |-> "5", period_stars |-> "1"]>>}

\* What scrape_hn_topstories returns.
ScrapeHn ==
    {<<>>,
     <<[rank |-> 1, item_id |-> 11, title |-> "t1", url |-> "u1", author |-> "bob",
        text |-> "", item_type |-> "story"]>>}

RECURSIVE SeqByRank(_)
SeqByRank(S) ==
    IF S = {} THEN <<>>
    ELSE LET m == CHOOSE e \in S : \A q \in S : e.rank <= q.rank
         IN  <<m>> \o SeqByRank(S \ {m})

\* list_gh_daily_entries, list_hn_daily_entries: ORDER BY rank
list_gh_daily_entries(runs, entries, run_day) ==
    SeqByRank({e \in entries :
                  \E r \in runs : /\ r.id = e.run_id /\ r.run_date = run_day
                                  /\ r.period = "daily"})

list_hn_daily_entries(runs, entries, run_day) ==
    SeqByRank({e \in entries :
                  \E r \in runs : /\ r.id = e.run_id /\ r.run_date = run_day
                                  /\ r.feed = "topstories"})

list_gh_daily_dates(runs) == {r.run_date : r \in {q \in runs : q.period = "daily"}}

list_hn_daily_dates(runs) == {r.run_date : r \in {q \in runs : q.feed = "topstories"}}

\* build_gh_view_rows with generation allowed: the summaries table after the
\* loop over rows; gen[i] is what generation yields for the i-th row.
RECURSIVE build_gh_view_rows(_, _, _, _, _)
build_gh_view_rows(rows, entries, run_day, gen, i) ==
    IF i > Len(entries) THEN rows
    ELSE build_gh_view_rows(
             get_or_generate_gh_summary(rows, entries[i].repo_id, run_day, gen[i]).rows,
             entries, run_day, gen, i + 1)

\* build_hn_view_rows with generation allowed: both artifact tables.
RECURSIVE build_hn_view_rows(_, _, _, _, _, _, _)
build_hn_view_rows(summaries, analyses, entries, run_day, gen, sampled, i) ==
    IF i > Len(entries) THEN [summaries |-> summaries, analyses |-> analyses]
    ELSE build_hn_view_rows(
             get_or_generate_hn_summary(summaries, entries[i].item_id, run_day,
                                        gen[i]).rows,
             get_or_generate_hn_comment_analysis(analyses, entries[i].item_id, run_day,
                                                 sampled[i], 5, gen[i]).rows,
             entries, run_day, gen, sampled, i + 1)

\* Every daily page the store has a run for, and the pages of run_day.
DailyPages(gh, hn) ==
    {<<"gh", d>> : d \in list_gh_daily_dates(gh)}
        \cup {<<"hn", d>> : d \in list_hn_daily_dates(hn)}

\* The labels of main at which the next thing to run is a statement on conn.
DbLabels == {"init_db", "acquire", "backfill", "backfill_flag", "regen", "scrape_gh",
             "scrape_hn", "enrich", "save"}

\* The labels inside main's try block.
TryLabels == DbLabels \cup {"mode", "push", "email"}

\* The labels between a successful acquire_run_lock and release_run_lock.
LockedLabels == TryLabels \ {"init_db", "acquire"}

Wrote(p, kinds) == [wrote EXCEPT ![p] = @ \cup kinds]

Goto(p, label) == [pc EXCEPT ![p] = label]

dataVars == <<gh_runs, gh_entries, gh_repos, hn_runs, hn_entries, hn_items, gh_summaries,
              hn_summaries, hn_comment_analyses>>
historyVars == <<calls, last, repeated, today, ticks, ret, focus>>

Init ==
    /\ ProcsIdle /\ ThreadIdle /\ QueryIdle
    /\ pages \in {{}, {<<"gh", HistoricDay>>}}
    /\ gh_runs = {} /\ gh_entries = {} /\ gh_repos = {}
    /\ hn_runs = {} /\ hn_entries = {} /\ hn_items = {}
    /\ gh_summaries = {} /\ hn_summaries = {} /\ hn_comment_analyses = {}
    /\ calls = 0 /\ last = NoCall /\ repeated = FALSE
    /\ today = 1 /\ ticks = 0 /\ ret = NoRet /\ focus = "none"

\* conn = get_db_connection(), or the exception that ends main
GetDbConnection(p) ==
    /\ pc[p] = "idle"
    /\ \E connected \in BOOLEAN :
        /\ conn' = [conn EXCEPT ![p] = IF connected THEN "open" ELSE "closed"]
        /\ pc' = Goto(p, IF connected THEN "init_db" ELSE "done")
    /\ UNCHANGED <<queryVars, threadVars, dataVars, historyVars, stmt, lock_acquired, period_idx, child, daily_found,
                   lock_holder, schema, app_meta, pages, pushed, emailed, wrote, denied>>

\* init_db: the next CREATE ... IF NOT EXISTS, committed on its own
InitDb(p) ==
    /\ pc[p] = "init_db" /\ conn[p] = "open"
    /\ LET object == InitDbStatements[stmt[p]]
       IN  /\ schema' = schema \cup {object}
           /\ wrote' = IF object \in schema THEN wrote ELSE Wrote(p, {"schema"})
    /\ stmt' = [stmt EXCEPT ![p] = @ + 1]
    /\ pc' = IF stmt[p] = Len(InitDbStatements) THEN Goto(p, "acquire") ELSE pc
    /\ UNCHANGED <<queryVars, threadVars, dataVars, historyVars, conn, lock_acquired, period_idx, child, daily_found,
                   lock_holder, app_meta, pages, pushed, emailed, denied>>

\* lock_acquired = acquire_run_lock(conn); if not lock_acquired: return
AcquireRunLock(p) ==
    /\ pc[p] = "acquire" /\ conn[p] = "open"
    /\ LET r == pg_try_advisory_lock(lock_holder, p)
       IN  /\ lock_holder' = r.holder
           /\ lock_acquired' = [lock_acquired EXCEPT ![p] = r.granted]
           /\ denied' = [denied EXCEPT ![p] = ~r.granted]
           /\ pc' = Goto(p, IF r.granted THEN "backfill" ELSE "release")
    /\ UNCHANGED <<queryVars, threadVars, dataVars, historyVars, conn, stmt, period_idx, child, daily_found, schema,
                   app_meta, pages, pushed, emailed, wrote>>

\* backfill_existing_gh_pages up to its last statement
BackfillExistingGhPages(p) ==
    /\ pc[p] = "backfill" /\ conn[p] = "open"
    /\ IF "gh_backfill_completed" \in app_meta
       THEN /\ pc' = Goto(p, "mode")
            /\ UNCHANGED <<gh_runs, gh_entries, gh_repos, gh_summaries, wrote>>
       ELSE IF <<"gh", HistoricDay>> \notin pages
       THEN /\ pc' = Goto(p, "backfill_flag")
            /\ UNCHANGED <<gh_runs, gh_entries, gh_repos, gh_summaries, wrote>>
       ELSE LET t == store_gh_period_run(gh_runs, gh_entries, gh_repos, HistoricDay,
                                         "daily", HistoricRepos, "backfill")
                repo == HistoricRepos[1]
            IN  /\ gh_runs' = t.runs /\ gh_entries' = t.entries /\ gh_repos' = t.repos
                /\ gh_summaries' =
                       IF t.raised THEN gh_summaries
                       ELSE cache_gh_summary_if_missing(
                                gh_summaries, GhRepoId(t.repos, repo.name), repo.summary,
                                HistoricDay)
                /\ wrote' = Wrote(p, {"store"} \cup
                                     (IF gh_summaries' # gh_summaries
                                      THEN {"artifacts"} ELSE {}))
                /\ pc' = Goto(p, IF t.raised THEN "release" ELSE "backfill_flag")
    /\ UNCHANGED <<hn_runs, hn_entries, hn_items, hn_summaries, hn_comment_analyses,
                   historyVars, threadVars, queryVars, conn, stmt, lock_acquired, period_idx, child, daily_found,
                   lock_holder, schema, app_meta, pages, pushed, emailed, denied>>

\* set_app_meta(conn, "gh_backfill_completed", "1")
BackfillCompleted(p) ==
    /\ pc[p] = "backfill_flag" /\ conn[p] = "open"
    /\ app_meta' = app_meta \cup {"gh_backfill_completed"}
    /\ wrote' = Wrote(p, {"meta"})
    /\ pc' = Goto(p, "mode")
    /\ UNCHANGED <<queryVars, threadVars, dataVars, historyVars, conn, stmt, lock_acquired, period_idx, child,
                   daily_found, lock_holder, schema, pages, pushed, emailed, denied>>

\* if args.regenerate_only:
Mode(p) ==
    /\ pc[p] = "mode"
    /\ \E regenerate_only \in BOOLEAN :
        pc' = Goto(p, IF regenerate_only THEN "regen" ELSE "scrape_gh")
    /\ UNCHANGED <<queryVars, threadVars, dataVars, historyVars, conn, stmt, lock_acquired, period_idx, child,
                   daily_found, lock_holder, schema, app_meta, pages, pushed, emailed,
                   wrote, denied>>

\* The `return` that ends the regenerate-only branch; the mutant falls
\* through to the scrapes.
AfterRegenerateFallThrough == "scrape_gh"

AfterRegenerate == "release"

\* the regenerate-only branch: every stored day's pages and the indexes
RegenerateOnly(p) ==
    /\ pc[p] = "regen" /\ conn[p] = "open"
    /\ pages' = pages \cup DailyPages(gh_runs, hn_runs)
    /\ wrote' = Wrote(p, {"pages"})
    /\ pc' = Goto(p, AfterRegenerate)
    /\ UNCHANGED <<queryVars, threadVars, dataVars, historyVars, conn, stmt, lock_acquired, period_idx, child,
                   daily_found, lock_holder, schema, app_meta, pushed, emailed, denied>>

\* if not gh_scrape_results.get("daily"): return
AfterGhScrapesAlways(found) == "scrape_hn"

AfterGhScrapes(found) == IF found THEN "scrape_hn" ELSE "release"

\* one iteration of `for period in GITHUB_PERIODS`, and after the last one
\* the test of gh_scrape_results["daily"]
ScrapeAndStoreGh(p) ==
    /\ pc[p] = "scrape_gh" /\ conn[p] = "open"
    /\ \E repos \in ScrapeGh :
        LET period == GITHUB_PERIODS[period_idx[p]]
            t == store_gh_period_run(gh_runs, gh_entries, gh_repos, today, period,
                                     repos, "live")
            found == IF period = "daily" THEN repos # <<>> ELSE daily_found[p]
        IN  /\ gh_runs' = t.runs /\ gh_entries' = t.entries /\ gh_repos' = t.repos
            /\ daily_found' = [daily_found EXCEPT ![p] = found]
            /\ period_idx' = [period_idx EXCEPT ![p] = @ + 1]
            /\ pc' = IF t.raised THEN Goto(p, "release")
                     ELSE IF period_idx[p] < Len(GITHUB_PERIODS) THEN pc
                     ELSE Goto(p, AfterGhScrapes(found))
    /\ wrote' = Wrote(p, {"store"})
    /\ UNCHANGED <<hn_runs, hn_entries, hn_items, artifactVars, historyVars, threadVars, queryVars, conn, stmt,
                   lock_acquired, child, lock_holder, schema, app_meta, pages, pushed, emailed,
                   denied>>

\* hn_items = scrape_hn_topstories(); store_hn_run(conn, run_day, hn_items)
ScrapeAndStoreHn(p) ==
    /\ pc[p] = "scrape_hn" /\ conn[p] = "open"
    /\ \E items \in ScrapeHn :
        LET t == store_hn_run(hn_runs, hn_entries, hn_items, today, items, "live")
        IN  /\ hn_runs' = t.runs /\ hn_entries' = t.entries /\ hn_items' = t.items
            /\ pc' = Goto(p, IF t.raised THEN "release" ELSE "enrich")
    /\ wrote' = Wrote(p, {"store"})
    /\ UNCHANGED <<gh_runs, gh_entries, gh_repos, artifactVars, historyVars, threadVars, queryVars, conn, stmt,
                   lock_acquired, period_idx, child, daily_found, lock_holder, schema, app_meta,
                   pages, pushed, emailed, denied>>

\* gh_rows = build_gh_view_rows(...); hn_rows = build_hn_view_rows(...)
Enrich(p) ==
    /\ pc[p] = "enrich" /\ conn[p] = "open"
    /\ LET gh == list_gh_daily_entries(gh_runs, gh_entries, today)
           hn == list_hn_daily_entries(hn_runs, hn_entries, today)
       IN  \E gen \in [1..Len(gh) -> {"", "g1"}], hgen \in [1..Len(hn) -> {"", "g1"}],
              sampled \in [1..Len(hn) -> {0, 2}] :
               LET h == build_hn_view_rows(hn_summaries, hn_comment_analyses, hn, today,
                                           hgen, sampled, 1)
               IN  /\ gh_summaries' = build_gh_view_rows(gh_summaries, gh, today, gen, 1)
                   /\ hn_summaries' = h.summaries
                   /\ hn_comment_analyses' = h.analyses
    /\ wrote' = IF artifactVars' # artifactVars THEN Wrote(p, {"artifacts"}) ELSE wrote
    /\ pc' = Goto(p, "save")
    /\ UNCHANGED <<storeVars, historyVars, threadVars, queryVars, conn, stmt, lock_acquired, period_idx, child,
                   daily_found, lock_holder, schema, app_meta, pages, pushed, emailed,
                   denied>>

\* regenerate_gh_daily_pages, regenerate_hn_daily_pages and save_files
SaveFiles(p) ==
    /\ pc[p] = "save" /\ conn[p] = "open"
    /\ pages' = pages \cup DailyPages(gh_runs, hn_runs)
                      \cup {<<"gh", today>>, <<"hn", today>>}
    /\ wrote' = Wrote(p, {"pages"})
    /\ pc' = Goto(p, "push")
    /\ UNCHANGED <<queryVars, threadVars, dataVars, historyVars, conn, stmt, lock_acquired, period_idx, child,
                   daily_found, lock_holder, schema, app_meta, pushed, emailed, denied>>

\* changed = git_commit_and_push()
GitCommitAndPush(p) ==
    /\ pc[p] = "push"
    /\ \E changed \in BOOLEAN :
        /\ pushed' = IF changed THEN pushed \cup {today} ELSE pushed
        /\ wrote' = IF changed THEN Wrote(p, {"remote"}) ELSE wrote
        /\ pc' = Goto(p, IF changed THEN "email" ELSE "release")
    /\ UNCHANGED <<queryVars, threadVars, dataVars, historyVars, conn, stmt, lock_acquired, period_idx, child,
                   daily_found, lock_holder, schema, app_meta, pages, emailed, denied>>

\* if wait_for_pages_live(...): send_email(...)
SendEmail(p) ==
    /\ pc[p] = "email"
    /\ \E live \in BOOLEAN :
        emailed' = IF live THEN emailed \cup {today} ELSE emailed
    /\ pc' = Goto(p, "release")
    /\ UNCHANGED <<queryVars, threadVars, dataVars, historyVars, conn, stmt, lock_acquired, period_idx, child,
                   daily_found, lock_holder, schema, app_meta, pages, pushed, wrote,
                   denied>>

\* A step inside the try block raises: control passes to the finally block.
Raise(p) ==
    /\ pc[p] \in TryLabels
    /\ pc' = Goto(p, "release")
    /\ UNCHANGED <<queryVars, threadVars, dataVars, historyVars, conn, stmt, lock_acquired, period_idx, child,
                   daily_found, lock_holder, schema, app_meta, pages, pushed, emailed,
                   wrote, denied>>

\* The server ends the session of conn: its advisory locks are dropped and
\* the next statement on conn raises.
ConnectionLost(p) ==
    /\ pc[p] \in TryLabels /\ conn[p] = "open"
    /\ conn' = [conn EXCEPT ![p] = "lost"]
    /\ lock_holder' = conn_close(lock_holder, p)
    /\ UNCHANGED <<queryVars, threadVars, dataVars, historyVars, pc, stmt, lock_acquired, period_idx, child,
                   daily_found, schema, app_meta, pages, pushed, emailed, wrote, denied>>

\* finally: if lock_acquired: release_run_lock(conn)
ReleaseRunLock(p) ==
    /\ pc[p] = "release"
    /\ lock_holder' = IF lock_acquired[p] /\ conn[p] = "open"
                      THEN pg_advisory_unlock(lock_holder, p)
                      ELSE lock_holder
    /\ pc' = Goto(p, "close")
    /\ UNCHANGED <<queryVars, threadVars, dataVars, historyVars, conn, stmt, lock_acquired, period_idx, child,
                   daily_found, schema, app_meta, pages, pushed, emailed, wrote, denied>>

\* finally: conn.close()
ConnClose(p) ==
    /\ pc[p] = "close"
    /\ lock_holder' = conn_close(lock_holder, p)
    /\ conn' = [conn EXCEPT ![p] = "closed"]
    /\ pc' = Goto(p, "done")
    /\ UNCHANGED <<queryVars, threadVars, dataVars, historyVars, stmt, lock_acquired, period_idx, child, daily_found,
                   schema, app_meta, pages, pushed, emailed, wrote, denied>>

Next ==
    \E p \in Procs :
        \/ GetDbConnection(p) \/ InitDb(p) \/ AcquireRunLock(p)
        \/ BackfillExistingGhPages(p) \/ BackfillCompleted(p) \/ Mode(p)
        \/ RegenerateOnly(p) \/ ScrapeAndStoreGh(p) \/ ScrapeAndStoreHn(p)
        \/ Enrich(p) \/ SaveFiles(p) \/ GitCommitAndPush(p) \/ SendEmail(p)
        \/ Raise(p) \/ ConnectionLost(p) \/ ReleaseRunLock(p) \/ ConnClose(p)

Spec == Init /\ [][Next]_vars

(***************************************************************************)
(* Properties of the run coordinator.                                      *)
(***************************************************************************)
\* p is between a successful acquire_run_lock and its release or the close
\* of its connection.
InRun(p) == lock_acquired[p] /\ conn[p] = "open" /\ pc[p] \in LockedLabels

\* C1: at most one process at a time is between a successful
\* acquire_run_lock and its release or connection close, and that process
\* is the holder of the advisory lock, so the backfill, the stores and the
\* enrichment of two runs never interleave.
C1_MutualExclusion ==
    /\ \A p \in Procs : InRun(p) => lock_holder = p
    /\ \A p, q \in Procs : (InRun(p) /\ InRun(q)) => p = q

\* One run has stored its daily GitHub run and is about to store the next
\* period while another process has asked for the lock and was refused.
C1_Witness ==
    \E p, q \in Procs :
        /\ InRun(p) /\ pc[p] = "scrape_gh" /\ period_idx[p] > 1
        /\ denied[q]

\* C2: on every exit path of main taken after the lock was acquired, the
\* lock is not held by the process once it has ended, and it is free when
\* no process is running.
C2_LockReleasedAtExit ==
    /\ \A p \in Procs : pc[p] = "done" => lock_holder # p
    /\ (\A p \in Procs : pc[p] \in {"idle", "done"}) => lock_holder = 0

\* A run that had the lock has ended, and another run holds the lock and has
\* written under it.
C2_Witness ==
    \E p, q \in Procs :
        /\ pc[p] = "done" /\ lock_acquired[p]
        /\ InRun(q) /\ lock_holder = q /\ wrote[q] # {}

\* C3: a run that cannot acquire the lock performs no write to the store
\* (schema included), to page files or to the remote.
C3_DeniedRunWritesNothing ==
    \A p \in Procs : denied[p] => wrote[p] = {}

(***************************************************************************)
(* The comment sampler.  A cleaned text is a sequence of chunks of CHUNK   *)
(* characters (the chunk "s" alone: a text of 10 characters); "Aa" and     *)
(* "aa" are chunks that differ in case only.                               *)
(***************************************************************************)
CHUNK == 100

ShortText == <<"s">>

\* len(text)
TextLen(text) == IF text = ShortText THEN 10 ELSE CHUNK * Len(text)

Min2(a, b) == IF a <= b THEN a ELSE b

Max2(a, b) == IF a >= b THEN a ELSE b

\* str.lower() on a chunk and on a text
LowerChunk(c) == IF c = "Aa" THEN "aa" ELSE IF c = "Bb" THEN "bb" ELSE c

Lower(text) == [i \in 1..Len(text) |-> LowerChunk(text[i])]

\* text[:n]
Prefix(text, n) == SubSeq(text, 1, Min2(Len(text), n \div CHUNK))

\* dedupe_key = node["text"][:200].lower(); the mutant compares case.
DedupeKeyCaseSensitive(text) == Prefix(text, 200)

\* The mutant that compares the first 100 characters only.
DedupeKeyFirstChunk(text) == Lower(Prefix(text, 100))

DedupeKey(text) == Lower(Prefix(text, 200))

\* signal = depth_bonus + len_bonus + reply_bonus + order_bonus, times 3080
\* (the least common multiple of the denominators 10, 220, 4 and 14).
SignalUncappedLen(node) ==
    (IF node.depth = 1 THEN 3696 ELSE IF node.depth = 2 THEN 2156 ELSE 924)
        + node.len * 14
        + Min2(node.reply_count, 10) * 770
        + Max2(0, 14 - node.root_pos) * 220

Signal(node) ==
    (IF node.depth = 1 THEN 3696 ELSE IF node.depth = 2 THEN 2156 ELSE 924)
        + Min2(node.len, 900) * 14
        + Min2(node.reply_count, 10) * 770
        + Max2(0, 14 - node.root_pos) * 220

\* a sorts before b under key (signal, len), reverse=True; the mutant sorts
\* by signal alone.
RankedBeforeBySignalOnly(a, b) == Signal(a) > Signal(b)

RankedBefore(a, b) ==
    \/ Signal(a) > Signal(b)
    \/ Signal(a) = Signal(b) /\ a.len > b.len

\* list.sort is stable: x goes behind every element it does not sort before.
RECURSIVE InsertRanked(_, _)
InsertRanked(sorted, x) ==
    IF sorted = <<>> THEN <<x>>
    ELSE IF RankedBefore(x, Head(sorted)) THEN <<x>> \o sorted
    ELSE <<Head(sorted)>> \o InsertRanked(Tail(sorted), x)

RECURSIVE SortRanked(_, _)
SortRanked(list, sorted) ==
    IF list = <<>> THEN sorted
    ELSE SortRanked(Tail(list), InsertRanked(sorted, Head(list)))

BranchCount(sel, branch_id) ==
    Cardinality({i \in 1..Len(sel) : sel[i].root_id = branch_id})

\* The mutant without the per-branch test.
RECURSIVE SelectLoopNoCap(_, _, _, _)
SelectLoopNoCap(ranked, i, sel, c) ==
    IF i > Len(ranked) THEN sel
    ELSE LET node == ranked[i]
         IN  IF \E j \in 1..Len(sel) : DedupeKey(sel[j].text) = DedupeKey(node.text)
             THEN SelectLoopNoCap(ranked, i + 1, sel, c)
             ELSE IF Len(sel) + 1 >= c.sample_size THEN Append(sel, node)
             ELSE SelectLoopNoCap(ranked, i + 1, Append(sel, node), c)

\* `for _, node in ranked:` from the i-th element on
RECURSIVE SelectLoop(_, _, _, _)
SelectLoop(ranked, i, sel, c) ==
    IF i > Len(ranked) THEN sel
    ELSE LET node == ranked[i]
         IN  IF BranchCount(sel, node.root_id) >= c.max_per_branch
             THEN SelectLoop(ranked, i + 1, sel, c)
             ELSE IF \E j \in 1..Len(sel) : DedupeKey(sel[j].text) = DedupeKey(node.text)
             THEN SelectLoop(ranked, i + 1, sel, c)
             ELSE IF Len(sel) + 1 >= c.sample_size THEN Append(sel, node)
             ELSE SelectLoop(ranked, i + 1, Append(sel, node), c)

select_hn_comment_sample(list, c) ==
    IF list = <<>> THEN <<>> ELSE SelectLoop(SortRanked(list, <<>>), 1, <<>>, c)

(***************************************************************************)
(* select_hn_comment_sample applied to every candidate list of at most     *)
(* MaxCand candidates, under every per-branch cap up to MaxCap and every    *)
(* sample size up to MaxSize.                                              *)
(***************************************************************************)
MaxCand == 3
MaxCap == 2
MaxSize == 3

\* Texts: two that differ in case only, two that agree on their first 200
\* characters and differ after them, and one unlike the others.
SampleTexts ==
    {<<"aa">>, <<"Aa">>, <<"aa", "bb", "cc">>, <<"aa", "bb", "dd">>, <<"bb">>}

Candidates ==
    {[depth |-> d, root_id |-> b, root_pos |-> b, reply_count |-> 0,
      len |-> TextLen(t), text |-> t] :
        d \in {1}, b \in {1, 2}, t \in SampleTexts}

\* Candidate i of a list is comment i.
CandidateLists ==
    {[i \in DOMAIN l |->
        [comment_id |-> i, depth |-> l[i].depth, root_id |-> l[i].root_id,
         root_pos |-> l[i].root_pos, reply_count |-> l[i].reply_count,
         len |-> l[i].len, text |-> l[i].text]] : l \in SeqsUpTo(Candidates, MaxCand)}

\* Nothing is stored and no process runs.
StoreIdle ==
    /\ gh_runs = {} /\ gh_entries = {} /\ gh_repos = {}
    /\ hn_runs = {} /\ hn_entries = {} /\ hn_items = {}
    /\ gh_summaries = {} /\ hn_summaries = {} /\ hn_comment_analyses = {}
    /\ calls = 0 /\ last = NoCall /\ repeated = FALSE
    /\ today = 1 /\ ticks = 0 /\ ret = NoRet /\ focus = "none"
    /\ ProcsIdle /\ pages = {}

SampleInit ==
    /\ StoreIdle /\ QueryIdle
    /\ graph = <<>> /\ queues = <<>> /\ visited = {} /\ fetched = {}
    /\ requests = <<>> /\ expanded = <<>>
    /\ popped = <<>> /\ branch = 0 /\ progressed = FALSE /\ selected = <<>>
    /\ wpc = "done"
    /\ total_comments_hint = 0 /\ walk_total = 0
    /\ nodes \in CandidateLists
    /\ \E cap \in 0..MaxCap, size \in 0..MaxSize :
           cfg = [max_nodes |-> 300, max_depth |-> 6, min_text_len |-> 40,
                  max_per_branch |-> cap, sample_size |-> size]

\* sampled = select_hn_comment_sample(nodes)
SelectSample ==
    /\ wpc = "done"
    /\ selected' = select_hn_comment_sample(nodes, cfg)
    /\ wpc' = "sampled"
    /\ UNCHANGED <<cfg, graph, queues, nodes, visited, fetched, requests, expanded,
                   popped, branch, progressed, total_comments_hint, walk_total>>
    /\ UNCHANGED <<dataVars, historyVars, procVars, queryVars>>

SampleNext == SelectSample

SpecSample == SampleInit /\ [][SampleNext]_vars

\* C17: the sample holds at most max_per_branch candidates of one top-level
\* branch.
C17_PerBranchCap ==
    wpc = "sampled" =>
        \A i \in 1..Len(selected) :
            BranchCount(selected, selected[i].root_id) <= cfg.max_per_branch

\* Three candidates of one branch with distinct texts under a cap of 2: two
\* of them are selected.
C17_Witness ==
    /\ wpc = "sampled" /\ Len(nodes) = 3 /\ cfg.max_per_branch = 2
    /\ \A i \in 1..3 : nodes[i].root_id = 1
    /\ \A i, j \in 1..3 :
           i # j => Lower(Prefix(nodes[i].text, 200)) # Lower(Prefix(nodes[j].text, 200))
    /\ cfg.sample_size = 3
    /\ Len(selected) = 2

\* C18: no two candidates of the sample have the same first 200 characters
\* of text when case is ignored.
C18_Deduplicated ==
    wpc = "sampled" =>
        \A i, j \in 1..Len(selected) :
            i # j => Lower(Prefix(selected[i].text, 200))
                         # Lower(Prefix(selected[j].text, 200))

\* Two candidates whose texts differ in case only, with room for both: one
\* of them is selected.
C18_Witness ==
    /\ wpc = "sampled" /\ Len(nodes) = 2 /\ cfg.sample_size = 2
    /\ cfg.max_per_branch = 2
    /\ nodes[1].text = <<"aa">> /\ nodes[2].text = <<"Aa">>
    /\ Len(selected) = 1

\* C19: the sample holds at most sample_size candidates, and an empty
\* candidate list gives an empty sample.
C19_SampleSize ==
    wpc = "sampled" =>
        /\ Len(selected) <= cfg.sample_size
        /\ nodes = <<>> => selected = <<>>

(***************************************************************************)
(* build_hn_comment_nodes, one iteration of its for loop per step, on the  *)
(* comment trees of at most MaxItems comments.  graph.par[i] is the item   *)
(* that lists comment i among its kids (0: the story), graph.live[i] tells *)
(* whether the API serves i as a comment that is neither dead nor deleted, *)
(* graph.text[i] is its cleaned text; graph.extra holds the further        *)
(* listings <<item, kid>> of an id among the kids of an item.              *)
(***************************************************************************)
MaxItems == 4
MaxBudget == 2
MaxDepthCfg == 2
MaxCount == 2

\* The defaults of the settings (lines 89 to 93).
DefaultCfg ==
    [max_nodes |-> 300, max_depth |-> 6, min_text_len |-> 40, max_per_branch |-> 4,
     sample_size |-> HN_COMMENT_SAMPLE_SIZE]

RECURSIVE Ascending(_)
Ascending(S) ==
    IF S = {} THEN <<>>
    ELSE LET m == CHOOSE x \in S : \A y \in S : x <= y
         IN  <<m>> \o Ascending(S \ {m})

\* item.get("kids") or []
Kids(g, item) ==
    Ascending({i \in DOMAIN g.par : g.par[i] = item})
        \o Ascending({k \in 0..Len(g.par) : <<item, k>> \in g.extra})

\* The depth of comment i in the tree the API serves.
RECURSIVE DepthOf(_, _)
DepthOf(g, i) == IF g.par[i] = 0 THEN 1 ELSE 1 + DepthOf(g, g.par[i])

\* The trees of comments 1..n: a comment is a kid of the story or of a
\* comment with a smaller id.  A comment is kept ("ok"), too short to keep
\* ("short") or not served as a live comment ("gone").  graph.descendants is
\* the story's "descendants" field, 0 when the field is 0 or missing.
Trees(n) == {par \in [1..n -> 0..n] : \A i \in 1..n : par[i] < i}

Graphs ==
    {[story |-> TRUE, descendants |-> MaxItems, par |-> par, extra |-> {},
      live |-> [i \in 1..MaxItems |-> kind[i] # "gone"],
      text |-> [i \in 1..MaxItems |->
                   IF kind[i] = "short" THEN ShortText ELSE <<ToString(i)>>]] :
        par \in Trees(MaxItems), kind \in [1..MaxItems -> {"ok", "short", "gone"}]}

\* The stories whose fetch fails (story is FALSE: a timeout, an HTTP error,
\* a payload that is not an object) and the stories served without kids,
\* whatever count of descendants they report.
RootGraphs ==
    {[story |-> FALSE, descendants |-> 0, par |-> [i \in 1..1 |-> 0], extra |-> {},
      live |-> [i \in 1..1 |-> TRUE], text |-> [i \in 1..1 |-> <<ToString(i)>>]]}
    \cup {[story |-> TRUE, descendants |-> d, par |-> <<>>, extra |-> {}, live |-> <<>>,
           text |-> <<>>] : d \in 0..MaxCount}

\* int(story.get("descendants") or total_comments_hint or 0)
TotalCommentsHintOnly(descendants, hint) == hint

TotalComments(descendants, hint) == IF descendants # 0 THEN descendants ELSE hint

\* if depth > HN_COMMENT_TRAVERSAL_MAX_DEPTH: continue
BeyondDepthOffByOne(depth, c) == depth > c.max_depth + 1

BeyondDepth(depth, c) == depth > c.max_depth

\* The for loop takes the next queue; the mutant stays on the queue it has.
SameBranch(b) == b

NextBranch(b) == b + 1

\* The scenario of a story with three top-level branches holding 10, 1 and
\* 1 qualifying comments: comments 1 to 10 form the first branch (a star, a
\* heap, or a chain of six with the rest under comment 1), 11 and 12 are the
\* other two.  Any of comments 1 to 6, 11 and 12 may be long (1000
\* characters), and comment 12 may repeat the text of comment 11.
ScenarioSize == 12

ScenarioTrees ==
    {[i \in 1..ScenarioSize |-> IF i \in {1, 11, 12} THEN 0 ELSE 1],
     [i \in 1..ScenarioSize |-> IF i \in {1, 11, 12} THEN 0 ELSE i \div 2],
     [i \in 1..ScenarioSize |->
         IF i \in {1, 11, 12} THEN 0 ELSE IF i <= 6 THEN i - 1 ELSE 1]}

LongText(i) == <<ToString(i)>> \o [k \in 1..9 |-> "x"]

ScenarioGraphs ==
    {[story |-> TRUE, descendants |-> ScenarioSize, par |-> par, extra |-> {},
      live |-> [i \in 1..ScenarioSize |-> TRUE],
      text |-> [i \in 1..ScenarioSize |->
                   IF i = ScenarioSize /\ dup
                   THEN (IF ScenarioSize - 1 \in long THEN LongText(ScenarioSize - 1)
                         ELSE <<ToString(ScenarioSize - 1)>>)
                   ELSE IF i \in long THEN LongText(i) ELSE <<ToString(i)>>]] :
        par \in ScenarioTrees, long \in SUBSET {1, 2, 3, 4, 5, 6, 11, 12}, dup \in BOOLEAN}

ScenarioCfg == [DefaultCfg EXCEPT !.max_per_branch = 4, !.sample_size = 6]

ThreadInit ==
    /\ StoreIdle /\ QueryIdle
    /\ queues = <<>> /\ nodes = <<>> /\ visited = {} /\ fetched = {} /\ popped = <<>>
    /\ requests = <<>> /\ expanded = <<>>
    /\ branch = 0 /\ progressed = FALSE /\ selected = <<>>
    /\ wpc = "story"
    /\ walk_total = 0
    /\ \/ /\ graph \in Graphs
          /\ total_comments_hint = graph.descendants
          /\ \E budget \in 0..MaxBudget, depth \in 1..MaxDepthCfg :
                 cfg = [DefaultCfg EXCEPT !.max_nodes = budget, !.max_depth = depth]
       \/ /\ graph \in RootGraphs
          /\ total_comments_hint \in 0..MaxCount
          /\ cfg = DefaultCfg
       \/ /\ graph \in ScenarioGraphs
          /\ total_comments_hint = graph.descendants
          /\ cfg = ScenarioCfg

\* story = fetch_hn_item_cached(...) up to the head of the while loop
FetchStory ==
    /\ wpc = "story"
    /\ walk_total' = IF ~graph.story THEN total_comments_hint
                          ELSE TotalComments(graph.descendants, total_comments_hint)
    /\ LET top_kids == IF graph.story THEN Kids(graph, 0) ELSE <<>>
       IN  IF ~graph.story \/ top_kids = <<>>
           THEN /\ wpc' = "done"
                /\ UNCHANGED <<queues, popped, branch>>
           ELSE /\ queues' = [b \in 1..Len(top_kids) |->
                                 <<[comment_id |-> top_kids[b], depth |-> 1,
                                    root_id |-> top_kids[b], root_pos |-> b]>>]
                /\ popped' = [b \in 1..Len(top_kids) |-> 0]
                /\ branch' = 1
                /\ wpc' = IF Len(nodes) < cfg.max_nodes THEN "for" ELSE "done"
    /\ requests' = Append(requests, 0)
    /\ UNCHANGED <<cfg, graph, nodes, visited, fetched, expanded, progressed, selected,
                   total_comments_hint>>
    /\ UNCHANGED <<dataVars, historyVars, procVars, queryVars>>

\* if comment_id in visited: continue.  The mutant never skips.
SeenNever(comment_id, v) == FALSE

Seen(comment_id, v) == comment_id \in v

\* not comment, a type other than "comment", dead or deleted: continue.
\* Item 0 is the story.
Served(g, comment_id) == comment_id # 0 /\ g.live[comment_id]

\* The replies of a served comment are queued whether or not the comment is
\* long enough to keep; the mutant queues the replies of kept comments only.
ExpandsKeptOnly(comment, keep) == keep

Expands(comment, keep) == comment

\* queue.append((kid, depth + 1, root_id, root_pos)); the mutant starts a
\* branch at the comment it queues the reply from.
ChildEntryOwnRoot(kid, e) ==
    [comment_id |-> kid, depth |-> e.depth + 1, root_id |-> e.comment_id,
     root_pos |-> e.root_pos]

ChildEntry(kid, e) ==
    [comment_id |-> kid, depth |-> e.depth + 1, root_id |-> e.root_id,
     root_pos |-> e.root_pos]

\* if len(nodes) >= HN_COMMENT_TRAVERSAL_MAX_NODES: break.  The mutant
\* finishes the pass.
BudgetReachedNever(ns, c) == FALSE

BudgetReached(ns, c) == Len(ns) >= c.max_nodes

\* One iteration of `for queue in branch_queues`, and what follows it when
\* it is the last of a round or ends with break.
ForIteration ==
    /\ wpc = "for"
    /\ LET queue == queues[branch]
           e == Head(queue)
           seen == Seen(e.comment_id, visited)
           call == ~seen /\ ~BeyondDepth(e.depth, cfg)
           hit == e.comment_id \in {0} \cup fetched
           fetch == call /\ ~hit
           comment == call /\ Served(graph, e.comment_id)
           text == graph.text[e.comment_id]
           kids == Kids(graph, e.comment_id)
           keep == comment /\ TextLen(text) >= cfg.min_text_len
           node == [comment_id |-> e.comment_id, depth |-> e.depth,
                    root_id |-> e.root_id, root_pos |-> e.root_pos,
                    reply_count |-> Len(kids), len |-> TextLen(text), text |-> text]
           appended == [i \in 1..Len(kids) |-> ChildEntry(kids[i], e)]
           nodes2 == IF queue # <<>> /\ keep THEN Append(nodes, node) ELSE nodes
           progressed2 == progressed \/ queue # <<>>
           broke == Len(nodes2) > Len(nodes) /\ BudgetReached(nodes2, cfg)
           last_queue == NextBranch(branch) > Len(queues)
       IN  /\ IF queue = <<>>
              THEN UNCHANGED <<queues, visited, fetched, requests, expanded, popped>>
              ELSE /\ queues' = [queues EXCEPT ![branch] =
                                    IF Expands(comment, keep) THEN Tail(queue) \o appended
                                    ELSE Tail(queue)]
                   /\ popped' = [popped EXCEPT ![branch] = @ + 1]
                   /\ visited' = visited \cup {e.comment_id}
                   /\ expanded' = IF seen THEN expanded
                                  ELSE Append(expanded, e.comment_id)
                   /\ fetched' = IF fetch THEN fetched \cup {e.comment_id} ELSE fetched
                   /\ requests' = IF fetch THEN Append(requests, e.comment_id)
                                  ELSE requests
           /\ nodes' = nodes2
           /\ IF broke \/ (last_queue /\ ~progressed2)
                       \/ (last_queue /\ Len(nodes2) >= cfg.max_nodes)
              THEN wpc' = "done" /\ branch' = branch /\ progressed' = progressed2
              ELSE IF last_queue
              THEN wpc' = "for" /\ branch' = 1 /\ progressed' = FALSE
              ELSE wpc' = "for" /\ branch' = NextBranch(branch)
                                /\ progressed' = progressed2
    /\ UNCHANGED <<cfg, graph, selected, total_comments_hint, walk_total>>
    /\ UNCHANGED <<dataVars, historyVars, procVars, queryVars>>

ThreadNext == FetchStory \/ ForIteration \/ SelectSample

SpecThread == ThreadInit /\ [][ThreadNext]_vars

(***************************************************************************)
(* Properties of the traversal and of the sample it feeds.                 *)
(***************************************************************************)
\* C14: every candidate has a depth between 1 and the maximum depth, and
\* no comment deeper than the maximum depth is fetched.
C14_DepthBudget ==
    /\ \A i \in 1..Len(nodes) :
          /\ nodes[i].depth >= 1 /\ nodes[i].depth <= cfg.max_depth
          /\ nodes[i].depth = DepthOf(graph, nodes[i].comment_id)
    /\ \A id \in fetched : DepthOf(graph, id) <= cfg.max_depth

\* A comment at the maximum depth is a candidate, and a reply to it was
\* popped and left unfetched.
C14_Witness ==
    /\ wpc = "done"
    /\ \E i \in 1..Len(nodes) : nodes[i].depth = cfg.max_depth
    /\ \E id \in visited \ fetched : DepthOf(graph, id) = cfg.max_depth + 1

\* C15: the number of comments fetched in one traversal never exceeds the
\* node budget.
C15_VisitBudget == Cardinality(fetched) <= cfg.max_nodes

\* C16 as stated: when the traversal of a story with top-level comments and
\* a budget of at least 1 stops, every top-level branch has been popped.
C16_NoBranchStarved ==
    (wpc = "done" /\ popped # <<>> /\ cfg.max_nodes >= 1) =>
        \A b \in 1..Len(popped) : popped[b] >= 1

\* C16 as amended: the queues are served in rotation.  A branch is ahead of
\* another whose queue still holds entries by at most one pop, and only the
\* earlier of the two is ahead; so a branch is left unpopped only when the
\* budget of kept nodes is reached during the first round.
C16_RoundRobin ==
    wpc \in {"for", "done"} =>
        /\ \A i, j \in 1..Len(popped) :
              popped[i] > popped[j] =>
                  \/ queues[j] = <<>>
                  \/ i < j /\ popped[i] = popped[j] + 1
        /\ (wpc = "done" /\ \E b \in 1..Len(popped) : popped[b] = 0) =>
              /\ Len(nodes) >= cfg.max_nodes
              /\ \A b \in 1..Len(popped) : popped[b] <= 1

\* The budget was reached in the second round: the first branch was popped
\* twice, after every other branch had been popped once.
C16_Witness ==
    /\ wpc = "done" /\ Len(popped) >= 2 /\ Len(nodes) = cfg.max_nodes
    /\ popped[1] = 2
    /\ \A b \in 2..Len(popped) : popped[b] = 1

SelectedOf(b) == BranchCount(selected, Kids(graph, 0)[b])

InScenario == graph \in ScenarioGraphs /\ wpc = "sampled"

\* C20: in the scenario the sample holds at most 4 comments of the first
\* branch and a comment of the second branch, and a comment of the third
\* unless it repeats the text of the second.
C20_DiversityScenario ==
    InScenario =>
        /\ Len(nodes) = ScenarioSize
        /\ SelectedOf(1) <= 4
        /\ SelectedOf(2) + SelectedOf(3) >= 1
        /\ DedupeKey(graph.text[ScenarioSize]) # DedupeKey(graph.text[ScenarioSize - 1])
              => (SelectedOf(2) = 1 /\ SelectedOf(3) = 1)

\* Six comments of the first branch score above the two other branches,
\* and the sample is four of the first branch with one of each other branch.
C20_Witness ==
    /\ InScenario
    /\ Cardinality({i \in 1..Len(nodes) :
                       /\ nodes[i].root_pos = 1
                       /\ \A j \in 1..Len(nodes) :
                              nodes[j].root_pos # 1 => Signal(nodes[i]) > Signal(nodes[j])})
           >= 6
    /\ SelectedOf(1) = 4 /\ SelectedOf(2) = 1 /\ SelectedOf(3) = 1

\* build_hn_comment_nodes has returned.
Returned == wpc \in {"done", "sampled"}

\* C21: when the fetch of the root story fails, the walk returns a total of 0
\* and no candidates, whatever the hint.
C21_UnreachableRoot ==
    (Returned /\ ~graph.story) => (walk_total = 0 /\ nodes = <<>>)

\* C22 as stated: for a root fetched without kids the walk returns the hint
\* and no candidates, whatever count of descendants the root reports.
C22_RootWithoutChildren ==
    (Returned /\ graph.story /\ Kids(graph, 0) = <<>>) =>
        (walk_total = total_comments_hint /\ nodes = <<>>)

\* C22 as amended: for a root fetched without kids the walk returns no
\* candidates and the count of descendants the root reports; it returns the
\* hint when the root reports none.
C22_RootCount ==
    (Returned /\ graph.story /\ Kids(graph, 0) = <<>>) =>
        /\ nodes = <<>> /\ fetched = {}
        /\ graph.descendants # 0 => walk_total = graph.descendants
        /\ graph.descendants = 0 => walk_total = total_comments_hint

\* A root without kids that reports no descendants was walked with a hint of
\* MaxCount, and the hint came back.
C22_Witness ==
    /\ Returned /\ graph.story /\ Kids(graph, 0) = <<>>
    /\ graph.descendants = 0 /\ total_comments_hint = MaxCount
    /\ walk_total = MaxCount

\* C30: each pass pops at most one entry of every branch queue, taking the
\* queues in the order of the root's kids: a step pops the queue the for
\* loop is at and moves to the next one, no branch is popped twice before
\* every branch was popped once, and two branches with pending entries
\* differ by at most one pop.
C30_StrictRoundRobin ==
    /\ [](/\ \A b \in 1..Len(queues) : \A k \in 1..Len(queues[b]) :
                 /\ queues[b][k].root_pos = b
                 /\ queues[b][k].root_id = Kids(graph, 0)[b]
          /\ \A i, j \in 1..Len(popped) :
                 /\ popped[i] >= 2 => popped[j] >= 1
                 /\ (queues[i] # <<>> /\ queues[j] # <<>>)
                        => popped[i] - popped[j] \in {-1, 0, 1})
    /\ [][wpc = "for" =>
              /\ \A b \in 1..Len(popped) :
                     \/ popped'[b] = popped[b]
                     \/ b = branch /\ queues[b] # <<>> /\ popped'[b] = popped[b] + 1
              /\ wpc' = "for" =>
                     \/ branch' = branch + 1
                     \/ branch = Len(queues) /\ branch' = 1]_vars

\* The second pass is under way: the first branch has been popped twice and
\* the for loop is at the second branch, popped once, with an entry pending.
C30_Witness ==
    /\ wpc = "for" /\ Len(popped) >= 2 /\ branch = 2
    /\ popped[1] = 2 /\ popped[2] = 1
    /\ queues[2] # <<>>

(***************************************************************************)
(* The history tracker: get_gh_history_stats and get_hn_history_stats on   *)
(* the stores that the runs of days 0..MaxHistDay leave behind.            *)
(***************************************************************************)
MaxHistDay == 3

HistDays == 0..MaxHistDay

scrapeVars == <<story_ids, hn_cfg, started, running, hn_fetched, stories, spc>>

HistoryRepo(name) ==
    [rank |-> 1, name |-> name, url |-> "u1", description |-> "d1", language |-> "py",
     stars |-> "5", period_stars |-> "1"]

HistoryItem(item_id) ==
    [rank |-> 1, item_id |-> item_id, title |-> "t1", url |-> "u1", author |-> "bob",
     text |-> "", item_type |-> "story"]

\* What the scrapes of one day found: no run that day ("none"), a run
\* without the entity followed here ("run": repository b, item 12), or a run
\* with it ("entry": repository a, item 11).
GhAppearances == [HistDays -> [daily : {"none", "run", "entry"}, weekly : {"none", "entry"}]]

HnAppearances == [HistDays -> {"none", "run", "entry"}]

\* The GitHub tables after the live runs of days 0..day.
RECURSIVE GhHistory(_, _)
GhHistory(appear, day) ==
    IF day < 0 THEN [runs |-> {}, entries |-> {}, repos |-> {}]
    ELSE LET t == GhHistory(appear, day - 1)
             d == IF appear[day].daily = "none" THEN t
                  ELSE store_gh_period_run(
                           t.runs, t.entries, t.repos, day, "daily",
                           <<HistoryRepo(IF appear[day].daily = "entry" THEN "a" ELSE "b")>>,
                           "live")
         IN  IF appear[day].weekly = "none" THEN d
             ELSE store_gh_period_run(d.runs, d.entries, d.repos, day, "weekly",
                                      <<HistoryRepo("a")>>, "live")

\* The Hacker News tables after the live runs of days 0..day.
RECURSIVE HnHistory(_, _)
HnHistory(appear, day) ==
    IF day < 0 THEN [runs |-> {}, entries |-> {}, items |-> {}]
    ELSE LET t == HnHistory(appear, day - 1)
         IN  IF appear[day] = "none" THEN t
             ELSE store_hn_run(t.runs, t.entries, t.items, day,
                               <<HistoryItem(IF appear[day] = "entry" THEN 11 ELSE 12)>>,
                               "live")

\* while day_cursor in date_set: streak += 1; day_cursor -= timedelta(days=1)
StreakIgnoringGaps(date_set, day_cursor) ==
    IF day_cursor \in date_set THEN Cardinality({d \in date_set : d <= day_cursor}) ELSE 0

RECURSIVE Streak(_, _)
Streak(date_set, day_cursor) ==
    IF day_cursor \in date_set THEN 1 + Streak(date_set, day_cursor - 1) ELSE 0

\* `if not rows` to the return, the same in both functions; dates is the
\* result set of the query, earliest -1 stands for None.
HistoryStats(dates, up_to_day) ==
    IF dates = {} THEN [earliest |-> -1, streak_days |-> 0, seen_before |-> FALSE]
    ELSE [earliest |-> CHOOSE d \in dates : \A q \in dates : d <= q,
          streak_days |-> Streak(dates, up_to_day),
          seen_before |-> \E day \in dates : day < up_to_day]

\* The mutant without the test of the period.
get_gh_history_stats_any_period(runs, entries, repo_id, up_to_day) ==
    HistoryStats({r.run_date : r \in {q \in runs :
                     /\ q.run_date <= up_to_day
                     /\ \E e \in entries : e.run_id = q.id /\ e.repo_id = repo_id}},
                 up_to_day)

\* SELECT gr.run_date FROM gh_entries ge JOIN gh_runs gr ON ge.run_id = gr.id
\* WHERE ge.repo_id = %s AND gr.period = 'daily' AND gr.run_date <= %s
get_gh_history_stats(runs, entries, repo_id, up_to_day) ==
    HistoryStats({r.run_date : r \in {q \in runs :
                     /\ q.period = "daily" /\ q.run_date <= up_to_day
                     /\ \E e \in entries : e.run_id = q.id /\ e.repo_id = repo_id}},
                 up_to_day)

\* SELECT hr.run_date FROM hn_entries he JOIN hn_runs hr ON he.run_id = hr.id
\* WHERE he.item_id = %s AND hr.feed = 'topstories' AND hr.run_date <= %s
get_hn_history_stats(runs, entries, item_id, up_to_day) ==
    HistoryStats({r.run_date : r \in {q \in runs :
                     /\ q.feed = "topstories" /\ q.run_date <= up_to_day
                     /\ \E e \in entries : e.run_id = q.id /\ e.item_id = item_id}},
                 up_to_day)

HistoryInit ==
    /\ gh_summaries = {} /\ hn_summaries = {} /\ hn_comment_analyses = {}
    /\ calls = 0 /\ last = NoCall /\ repeated = FALSE
    /\ today = MaxHistDay /\ ticks = 0 /\ ret = NoRet /\ focus = "none"
    /\ ProcsIdle /\ pages = {} /\ ThreadIdle /\ QueryIdle
    /\ \/ /\ \E appear \in GhAppearances :
                LET t == GhHistory(appear, MaxHistDay)
                IN  gh_runs = t.runs /\ gh_entries = t.entries /\ gh_repos = t.repos
          /\ hn_runs = {} /\ hn_entries = {} /\ hn_items = {}
       \/ /\ \E appear \in HnAppearances :
                LET t == HnHistory(appear, MaxHistDay)
                IN  hn_runs = t.runs /\ hn_entries = t.entries /\ hn_items = t.items
          /\ gh_runs = {} /\ gh_entries = {} /\ gh_repos = {}

\* earliest_seen, streak_days, seen_before = get_gh_history_stats(conn, repo_id, run_day)
GhHistoryStats ==
    /\ \E repo_id \in {r.id : r \in gh_repos}, up_to_day \in HistDays :
           LET r == get_gh_history_stats(gh_runs, gh_entries, repo_id, up_to_day)
           IN  stats' = [feed |-> "gh", entity |-> repo_id, up_to_day |-> up_to_day,
                         earliest |-> r.earliest, streak_days |-> r.streak_days,
                         seen_before |-> r.seen_before]
    /\ UNCHANGED <<dataVars, historyVars, procVars, threadVars, scrapeVars>>

\* earliest_seen, streak_days, seen_before = get_hn_history_stats(conn, item_id, run_day)
HnHistoryStats ==
    /\ \E item_id \in {r.id : r \in hn_items}, up_to_day \in HistDays :
           LET r == get_hn_history_stats(hn_runs, hn_entries, item_id, up_to_day)
           IN  stats' = [feed |-> "hn", entity |-> item_id, up_to_day |-> up_to_day,
                         earliest |-> r.earliest, streak_days |-> r.streak_days,
                         seen_before |-> r.seen_before]
    /\ UNCHANGED <<dataVars, historyVars, procVars, threadVars, scrapeVars>>

HistoryNext == GhHistoryStats \/ HnHistoryStats

SpecHistory == HistoryInit /\ [][HistoryNext]_vars

(***************************************************************************)
(* Properties of the history tracker.                                      *)
(***************************************************************************)
\* The dates of the runs, of any period, in which the entity has an entry.
AppearanceDates(feed, entity) ==
    IF feed = "gh"
    THEN {r.run_date : r \in {q \in gh_runs :
             \E e \in gh_entries : e.run_id = q.id /\ e.repo_id = entity}}
    ELSE {r.run_date : r \in {q \in hn_runs :
             \E e \in hn_entries : e.run_id = q.id /\ e.item_id = entity}}

\* The dates of the daily GitHub runs, or of the top-stories runs, in which
\* the entity has an entry.
DailyDates(feed, entity) ==
    IF feed = "gh"
    THEN {r.run_date : r \in {q \in gh_runs :
             /\ q.period = "daily"
             /\ \E e \in gh_entries : e.run_id = q.id /\ e.repo_id = entity}}
    ELSE AppearanceDates(feed, entity)

\* C23: seen_before is true exactly when the entity has an entry in a run,
\* of any period, dated before the reference date.
C23_SeenBefore ==
    stats.feed # "none" =>
        (stats.seen_before <=>
            \E d \in AppearanceDates(stats.feed, stats.entity) : d < stats.up_to_day)

MaxStories == 3
MaxWorkers == 2

ItemKinds == {"story", "untitled", "comment", "none"}

TopStories ==
    {[rank \in 1..Len(kinds) |-> [item_id |-> 10 + rank, kind |-> kinds[rank]]] :
        kinds \in SeqsUpTo(ItemKinds, MaxStories)}

\* stories = [fetched[rank] for rank in sorted(fetched)]
UnsortedStories(f) == f

SortedStories(f) == SeqByRank({f[k] : k \in 1..Len(f)})

ScrapeInit ==
    /\ StoreIdle /\ ThreadIdle /\ stats = NoStats
    /\ story_ids \in TopStories
    /\ \E max_items \in 0..(MaxStories - 1), fetch_workers \in 1..MaxWorkers :
           hn_cfg = [max_items |-> max_items, fetch_workers |-> fetch_workers]
    /\ started = 0 /\ running = {} /\ hn_fetched = <<>> /\ stories = <<>>
    /\ spc = "start"

\* The request for the list of ids, up to the submission of the futures
FetchTopStories ==
    /\ spc = "start"
    /\ \E is_list \in BOOLEAN :
           IF ~is_list THEN spc' = "raised" /\ UNCHANGED story_ids
           ELSE /\ spc' = "pool"
                /\ story_ids' = IF hn_cfg.max_items > 0
                                THEN SubSeq(story_ids, 1, Min2(hn_cfg.max_items, Len(story_ids)))
                                ELSE story_ids
    /\ UNCHANGED <<hn_cfg, started, running, hn_fetched, stories>>
    /\ UNCHANGED <<dataVars, historyVars, procVars, threadVars, stats>>

\* A free worker takes up the next future, in the order of submission.
StartFetch ==
    /\ spc = "pool"
    /\ started < Len(story_ids)
    /\ Cardinality(running) < hn_cfg.fetch_workers
    /\ started' = started + 1
    /\ running' = running \cup {started + 1}
    /\ UNCHANGED <<story_ids, hn_cfg, hn_fetched, stories, spc>>
    /\ UNCHANGED <<dataVars, historyVars, procVars, threadVars, stats>>

\* A running fetch completes and the body of `for future in
\* as_completed(futures)` runs for it.
CompleteFetch ==
    /\ spc = "pool"
    /\ \E rank \in running :
           /\ running' = running \ {rank}
           /\ hn_fetched' =
                  IF story_ids[rank].kind = "story"
                  THEN Append(hn_fetched, [rank |-> rank, item_id |-> story_ids[rank].item_id])
                  ELSE hn_fetched
    /\ UNCHANGED <<story_ids, hn_cfg, started, stories, spc>>
    /\ UNCHANGED <<dataVars, historyVars, procVars, threadVars, stats>>

\* Every future is done: the with block ends, the stories are listed.
ReturnStories ==
    /\ spc = "pool"
    /\ started = Len(story_ids) /\ running = {}
    /\ stories' = SortedStories(hn_fetched)
    /\ spc' = "done"
    /\ UNCHANGED <<story_ids, hn_cfg, started, running, hn_fetched>>
    /\ UNCHANGED <<dataVars, historyVars, procVars, threadVars, stats>>

ScrapeNext == FetchTopStories \/ StartFetch \/ CompleteFetch \/ ReturnStories

SpecScrape == ScrapeInit /\ [][ScrapeNext]_vars

\* C28: whatever the order in which the fetches complete, the list returned
\* holds exactly the titled stories of the id list, in strictly ascending
\* rank, each with the position of its id in the list as its rank.
C28_RankOrder ==
    spc = "done" =>
        /\ \A i, j \in 1..Len(stories) : i < j => stories[i].rank < stories[j].rank
        /\ \A k \in 1..Len(stories) :
              /\ stories[k].rank \in 1..Len(story_ids)
              /\ story_ids[stories[k].rank].item_id = stories[k].item_id
              /\ story_ids[stories[k].rank].kind = "story"
        /\ \A rank \in 1..Len(story_ids) :
              story_ids[rank].kind = "story" => \E k \in 1..Len(stories) : stories[k].rank = rank

\* The fetch of rank 3 completed before the fetch of rank 1 and rank 2 gave
\* nothing: the list returned is ranks 1 and 3, in that order.
C28_Witness ==
    /\ spc = "done" /\ Len(story_ids) = 3 /\ story_ids[2].kind = "none"
    /\ Len(hn_fetched) = 2 /\ hn_fetched[1].rank = 3 /\ hn_fetched[2].rank = 1
    /\ Len(stories) = 2 /\ stories[1].rank = 1 /\ stories[2].rank = 3

(***************************************************************************)
(* Properties of main: the scrapes, publishing, earlier days and the       *)
(* regenerate-only mode.                                                   *)
(***************************************************************************)
\* C25: a scrape that fails or finds nothing counts as zero results and the
\* run goes on to the next feed: each store of a GitHub period is followed
\* by the scrape of the next period, and the last one by the scrape of the
\* Hacker News top stories.
C25_FeedIsolation ==
    [][\A p \in Procs :
          period_idx'[p] # period_idx[p] =>
              pc'[p] = IF period_idx'[p] <= Len(GITHUB_PERIODS) THEN "scrape_gh"
                       ELSE "scrape_hn"]_vars

\* p has scraped and stored the daily ranking.
DailyScraped(p) == period_idx[p] > 1

\* C26: a run whose daily scrape yields no repositories writes no page,
\* pushes nothing and sends no email; a run that scrapes writes pages,
\* pushes and sends the email only after it has fetched a daily ranking
\* that is not empty and stored the runs of every period.
C26_NoPublishWithoutDaily ==
    /\ \A p \in Procs :
          (DailyScraped(p) /\ ~daily_found[p]) =>
              /\ wrote[p] \cap {"pages", "remote"} = {}
              /\ pc[p] \in {"scrape_gh", "release", "close", "done"}
    /\ \A p \in Procs :
          (DailyScraped(p) /\ (wrote[p] \cap {"pages", "remote"} # {} \/ pc[p] = "email")) =>
              /\ daily_found[p]
              /\ period_idx[p] > Len(GITHUB_PERIODS)
              /\ \E r \in gh_runs : r.run_date = today /\ r.period = "daily"
    /\ \A p \in Procs : "remote" \in wrote[p] => (DailyScraped(p) /\ "pages" \in wrote[p])
    /\ emailed # {} => \E p \in Procs : daily_found[p] /\ "remote" \in wrote[p]

\* A run whose daily scrape found nothing has stored its runs and ended, and
\* no page of the day exists.
C26_Witness ==
    \E p \in Procs :
        /\ pc[p] = "done" /\ period_idx[p] > Len(GITHUB_PERIODS) /\ ~daily_found[p]
        /\ "store" \in wrote[p]
        /\ <<"gh", today>> \notin pages /\ pushed = {} /\ emailed = {}

PriorRuns(runs, day) == {r \in runs : r.run_date < day}

PriorEntries(runs, entries, day) ==
    {e \in entries : \E r \in runs : r.id = e.run_id /\ r.run_date < day}

\* The runs and run entries dated before the day of the run.
PriorDays ==
    <<PriorRuns(gh_runs, today), PriorEntries(gh_runs, gh_entries, today),
      PriorRuns(hn_runs, today), PriorEntries(hn_runs, hn_entries, today)>>

\* C27 as stated: no step of a run changes a run or a run entry of an
\* earlier date.
C27_PriorDaysUntouched == [][PriorDays' = PriorDays]_vars

\* C27 as amended: the runs and entries of earlier dates change only in a
\* step of backfill_existing_gh_pages taken while the backfill is not marked
\* completed, which stores daily GitHub runs, tagged "backfill", for the
\* dates of existing pages; the scrapes, successful or not, and every other
\* step leave them unchanged.
C27_PriorDays ==
    [][PriorDays' # PriorDays =>
          /\ \E p \in Procs : pc[p] = "backfill" /\ pc'[p] # pc[p]
          /\ "gh_backfill_completed" \notin app_meta
          /\ PriorRuns(hn_runs', today) = PriorRuns(hn_runs, today)
          /\ PriorEntries(hn_runs', hn_entries', today)
                 = PriorEntries(hn_runs, hn_entries, today)
          /\ \A r \in PriorRuns(gh_runs', today) \ PriorRuns(gh_runs, today) :
                 /\ r.period = "daily" /\ r.source = "backfill"
                 /\ <<"gh", r.run_date>> \in pages]_vars

\* The run of an earlier day and its entries are in the store after a run
\* whose daily scrape failed has stored its empty runs.
C27_Witness ==
    /\ PriorRuns(gh_runs, today) # {}
    /\ PriorEntries(gh_runs, gh_entries, today) # {}
    /\ \E p \in Procs : period_idx[p] > Len(GITHUB_PERIODS) /\ ~daily_found[p]
    /\ \E r \in gh_runs : r.run_date = today /\ r.period = "daily" /\ r.repo_count = 0

\* p is a run in regenerate-only mode: it is at the regenerate branch or has
\* written pages without a scrape.
RegenerateOnlyRun(p) == pc[p] = "regen" \/ ("pages" \in wrote[p] /\ ~DailyScraped(p))

\* C29 as stated: a regenerate-only run has written nothing to the tables of
\* runs, entries, entities and artifacts.
C29_RegenerateLeavesStore ==
    \A p \in Procs : RegenerateOnlyRun(p) => wrote[p] \cap {"store", "artifacts"} = {}

\* C29 as amended: a regenerate-only run makes no scrape, no generation, no
\* push and sends no email, and from the test of the mode on it leaves the
\* tables unchanged: its only writes to the tables are those of the backfill
\* of existing pages that every run starts with.
C29_RegenerateOnly ==
    /\ [](\A p \in Procs :
             RegenerateOnlyRun(p) =>
                 /\ period_idx[p] = 1 /\ "remote" \notin wrote[p]
                 /\ pc[p] \in {"regen", "release", "close", "done"})
    /\ [][\A p \in Procs :
             /\ (pc[p] = "regen" /\ pc'[p] # pc[p]) =>
                    (UNCHANGED <<dataVars, pushed, emailed, app_meta>> /\ pc'[p] = "release")
             /\ (wrote'[p] \ wrote[p]) \cap {"store", "artifacts"} # {} =>
                    pc[p] \in {"backfill", "scrape_gh", "scrape_hn", "enrich"}]_vars

\* A regenerate-only run has ended: it imported an existing page into the
\* store in its backfill and then rewrote the pages.
C29_Witness ==
    \E p \in Procs :
        /\ pc[p] = "done" /\ RegenerateOnlyRun(p)
        /\ {"store", "pages"} \subseteq wrote[p]
(***************************************************************************)
(* Traversal past low-signal nodes, on the comment trees of SpecThread.    *)
(***************************************************************************)
\* The top-level comment above comment i in the tree.
RECURSIVE RootOf(_, _)
RootOf(g, i) == IF g.par[i] = 0 THEN i ELSE RootOf(g, g.par[i])

\* The 1-based position of top-level comment r among the kids of the story.
RootPos(g, r) == CHOOSE b \in 1..Len(Kids(g, 0)) : Kids(g, 0)[b] = r

\* Comment i and every comment above it are served as live comments.
RECURSIVE LivePath(_, _)
LivePath(g, i) == g.live[i] /\ (g.par[i] = 0 \/ LivePath(g, g.par[i]))

NodeIds == {nodes[i].comment_id : i \in 1..Len(nodes)}

\* C31: a candidate is never shorter than the minimum length; every reply
\* of a fetched live comment, kept or too short, has been visited or waits
\* in the queue of the comment's branch one level deeper; a visited or
\* queued reply hangs under a fetched live comment, so the replies of a
\* dead, deleted, non-comment or unfetchable item are never queued; and a
\* walk that ends below the node budget has emitted every long-enough live
\* comment within the depth limit whose ancestors are all live.
C31_LowSignal ==
    (wpc \in {"for", "done", "sampled"} /\ graph.story) =>
        /\ \A i \in 1..Len(nodes) : nodes[i].len >= cfg.min_text_len
        /\ \A c \in fetched : graph.live[c] =>
               \A k \in {i \in DOMAIN graph.par : graph.par[i] = c} :
                   \/ k \in visited
                   \/ LET q == queues[RootPos(graph, RootOf(graph, c))]
                      IN  \E j \in 1..Len(q) :
                              q[j] = [comment_id |-> k, depth |-> DepthOf(graph, c) + 1,
                                      root_id |-> RootOf(graph, c),
                                      root_pos |-> RootPos(graph, RootOf(graph, c))]
        /\ \A k \in visited : graph.par[k] # 0 =>
               graph.par[k] \in fetched /\ graph.live[graph.par[k]]
        /\ \A b \in 1..Len(queues) : \A j \in 1..Len(queues[b]) :
               LET k == queues[b][j].comment_id
               IN  graph.par[k] # 0 => graph.par[k] \in fetched /\ graph.live[graph.par[k]]
        /\ (wpc # "for" /\ Len(nodes) < cfg.max_nodes) =>
               \A c \in DOMAIN graph.par :
                   (/\ LivePath(graph, c)
                    /\ TextLen(graph.text[c]) >= cfg.min_text_len
                    /\ DepthOf(graph, c) <= cfg.max_depth) => c \in NodeIds

\* A finished walk that emitted the reply of a too-short comment and fetched
\* a dead comment that lists replies.
C31_Witness ==
    /\ wpc = "done" /\ graph.story
    /\ \E i \in 1..Len(nodes) :
           LET up == graph.par[nodes[i].comment_id]
           IN  up # 0 /\ graph.live[up] /\ TextLen(graph.text[up]) < cfg.min_text_len
    /\ \E c \in fetched : ~graph.live[c] /\ Kids(graph, c) # <<>>

(***************************************************************************)
(* build_hn_comment_nodes on item graphs that are not trees: the comments  *)
(* 1..MaxGraphItems with at most MaxExtraKids further listings of an id    *)
(* among the kids of an item (a second parent, an own descendant, the      *)
(* comment itself, the story, a repeated kid), budgets from -1 and depth   *)
(* limits up to one more than MaxDepthCfg.                                 *)
(***************************************************************************)
MaxGraphItems == 3
MaxExtraKids == 1

RECURSIVE KidSets(_, _)
KidSets(n, m) ==
    IF m = 0 THEN {{}}
    ELSE LET less == KidSets(n, m - 1)
         IN  less \cup {x \cup {<<item, kid>>} : x \in less, item \in 0..n, kid \in 0..n}

ItemGraphs(n, m) ==
    {[story |-> TRUE, descendants |-> n, par |-> par, extra |-> extra,
      live |-> [i \in 1..n |-> kind[i] # "gone"],
      text |-> [i \in 1..n |-> IF kind[i] = "short" THEN ShortText ELSE <<ToString(i)>>]] :
        par \in Trees(n), kind \in [1..n -> {"ok", "short", "gone"}],
        extra \in KidSets(n, m)}

GraphInit ==
    /\ StoreIdle /\ QueryIdle
    /\ queues = <<>> /\ nodes = <<>> /\ visited = {} /\ fetched = {} /\ popped = <<>>
    /\ requests = <<>> /\ expanded = <<>>
    /\ branch = 0 /\ progressed = FALSE /\ selected = <<>>
    /\ wpc = "story"
    /\ walk_total = 0
    /\ graph \in ItemGraphs(MaxGraphItems, MaxExtraKids)
    /\ total_comments_hint = graph.descendants
    /\ \E budget \in -1..MaxBudget, depth \in 1..MaxDepthCfg + 1 :
           cfg = [DefaultCfg EXCEPT !.max_nodes = budget, !.max_depth = depth]

\* The walk is one sequential call: a step that can be taken is taken.
SpecGraph == GraphInit /\ [][ThreadNext]_vars /\ WF_vars(ThreadNext)

\* A chain of listings of the given length leads from one id to another
\* through comments that were fetched and served as live comments.
RECURSIVE Reach(_, _, _, _)
Reach(g, from, to, steps) ==
    IF steps = 0 THEN from = to
    ELSE /\ from \in fetched /\ Served(g, from)
         /\ \E i \in 1..Len(Kids(g, from)) : Reach(g, Kids(g, from)[i], to, steps - 1)

\* C32: every candidate and every queued entry names a top-level comment by
\* id and by its 1-based position among the kids of the story, and a chain
\* of depth - 1 listings leads from that top-level comment to it through
\* fetched live comments.
C32_BranchAttribution ==
    wpc \in {"for", "done", "sampled"} =>
        LET top_kids == Kids(graph, 0)
            Attributed(e) ==
                /\ e.depth >= 1
                /\ e.root_pos \in 1..Len(top_kids)
                /\ top_kids[e.root_pos] = e.root_id
                /\ Reach(graph, e.root_id, e.comment_id, e.depth - 1)
        IN  /\ \A i \in 1..Len(nodes) : Attributed(nodes[i])
            /\ \A b \in 1..Len(queues) : \A j \in 1..Len(queues[b]) :
                   Attributed(queues[b][j]) /\ queues[b][j].root_pos = b

\* A candidate of the second branch, below the top level, whose id is
\* listed a second time.
C32_Witness ==
    /\ wpc = "done"
    /\ \E i \in 1..Len(nodes) :
           /\ nodes[i].depth >= 2 /\ nodes[i].root_pos = 2
           /\ \E x \in graph.extra : x[2] = nodes[i].comment_id

\* C33: the candidate list is never longer than the budget, empty when the
\* budget is 0 or less, names no comment twice, and the for loop is left as
\* soon as the list reaches the budget.
C33_CandidateBudget ==
    /\ Len(nodes) <= Max2(cfg.max_nodes, 0)
    /\ \A i, j \in 1..Len(nodes) : i # j => nodes[i].comment_id # nodes[j].comment_id
    /\ wpc = "for" => Len(nodes) < cfg.max_nodes

\* The list reached the budget in the middle of a pass: a later queue still
\* holds an entry.
C33_Witness ==
    /\ wpc = "done" /\ cfg.max_nodes >= 1 /\ Len(nodes) = cfg.max_nodes
    /\ \E b \in (branch + 1)..Len(queues) : queues[b] # <<>>

NoRepeat(seq) == \A i, j \in 1..Len(seq) : i # j => seq[i] # seq[j]

\* g lists comment a above comment i in its tree, or a is i.
RECURSIVE Above(_, _, _)
Above(g, a, i) == i # 0 /\ (a = i \/ Above(g, a, g.par[i]))

\* C34: on every item graph and with every pattern of failed fetches the
\* walk ends; no comment id passes the visited test twice and no item is
\* requested twice.
C34_Termination ==
    /\ [](NoRepeat(expanded) /\ NoRepeat(requests))
    /\ <>(wpc \in {"done", "sampled"})

\* A walk that emptied every queue of a graph where a fetched live comment
\* lists itself or a comment above it: that entry was popped and skipped.
C34_Witness ==
    /\ wpc = "done" /\ \A b \in 1..Len(queues) : queues[b] = <<>>
    /\ \E x \in graph.extra :
           /\ x[1] # 0 /\ x[2] # 0 /\ Above(graph, x[2], x[1])
           /\ x[1] \in fetched /\ graph.live[x[1]]
           /\ DepthOf(graph, x[1]) < cfg.max_depth

(***************************************************************************)
(* select_hn_comment_sample on candidates around the caps of the score:    *)
(* pairs of candidates over a grid of depths, branch ranks, reply counts   *)
(* and text lengths, and lists of at most MaxCand candidates of 900 and    *)
(* 1000 characters in two branches, whose scores tie.                      *)
(***************************************************************************)
MaxRankDepth == 4
LEN_CAP == 900
REPLY_CAP == 10
ORDER_RANKS == 14

\* A text of n chunks that starts with the given chunk.
RankText(first, n) == <<first>> \o [k \in 1..(n - 1) |-> "x"]

ScoreGrid ==
    [depth : 1..MaxRankDepth,
     root_pos : {1} \cup (ORDER_RANKS - 1)..(ORDER_RANKS + 1),
     reply_count : {0} \cup (REPLY_CAP - 1)..(REPLY_CAP + 1),
     chunks : {1} \cup ((LEN_CAP \div CHUNK) - 1)..((LEN_CAP \div CHUNK) + 1)]

GridCandidate(i, g) ==
    [comment_id |-> i, depth |-> g.depth, root_id |-> g.root_pos, root_pos |-> g.root_pos,
     reply_count |-> g.reply_count, len |-> CHUNK * g.chunks,
     text |-> RankText(ToString(i), g.chunks)]

TieCandidates ==
    {[depth |-> 1, root_id |-> b, root_pos |-> b, reply_count |-> 0,
      len |-> CHUNK * n, text |-> RankText(first, n)] :
        b \in {1, 2}, n \in {LEN_CAP \div CHUNK, (LEN_CAP \div CHUNK) + 1},
        first \in {"aa", "bb", "cc"}}

TieLists ==
    {[i \in DOMAIN l |->
        [comment_id |-> i, depth |-> l[i].depth, root_id |-> l[i].root_id,
         root_pos |-> l[i].root_pos, reply_count |-> l[i].reply_count,
         len |-> l[i].len, text |-> l[i].text]] : l \in SeqsUpTo(TieCandidates, MaxCand)}

RankInit ==
    /\ StoreIdle /\ QueryIdle
    /\ graph = <<>> /\ queues = <<>> /\ visited = {} /\ fetched = {}
    /\ requests = <<>> /\ expanded = <<>>
    /\ popped = <<>> /\ branch = 0 /\ progressed = FALSE /\ selected = <<>>
    /\ wpc = "done"
    /\ total_comments_hint = 0 /\ walk_total = 0
    /\ \/ /\ \E a \in ScoreGrid, b \in ScoreGrid :
                 nodes = <<GridCandidate(1, a), GridCandidate(2, b)>>
          /\ cfg = DefaultCfg
       \/ /\ nodes \in TieLists
          /\ \E cap \in 1..MaxCap, size \in 1..MaxSize :
                 cfg = [DefaultCfg EXCEPT !.max_per_branch = cap, !.sample_size = size]

SpecRank == RankInit /\ [][SampleNext]_vars

\* y is considered before x: it sorts before x, or neither sorts before the
\* other and y comes first in the candidate list.
ConsideredBefore(y, x) ==
    \/ Signal(y) > Signal(x)
    \/ Signal(y) = Signal(x) /\ y.len > x.len
    \/ Signal(y) = Signal(x) /\ y.len = x.len /\ y.comment_id < x.comment_id

SelectedIds == {selected[i].comment_id : i \in 1..Len(selected)}

\* C35: the sample is in non-increasing order of score, candidates of equal
\* score in non-increasing order of length; and a candidate left out although
\* it has a strictly higher (score, length) pair than a selected one was
\* refused because of the selected candidates considered before it: they
\* fill its branch to the cap or one of them has its first 200 characters.
C35_SelectionOrder ==
    wpc = "sampled" =>
        /\ \A i, j \in 1..Len(selected) : i < j =>
               \/ Signal(selected[i]) > Signal(selected[j])
               \/ Signal(selected[i]) = Signal(selected[j])
                      /\ selected[i].len >= selected[j].len
        /\ \A k \in 1..Len(nodes) : \A i \in 1..Len(selected) :
               LET y == nodes[k]
                   x == selected[i]
                   ahead == {j \in 1..Len(selected) : ConsideredBefore(selected[j], y)}
                   higher == \/ Signal(y) > Signal(x)
                             \/ Signal(y) = Signal(x) /\ y.len > x.len
               IN  (y.comment_id \notin SelectedIds /\ higher) =>
                       \/ Cardinality({j \in ahead : selected[j].root_id = y.root_id})
                              >= cfg.max_per_branch
                       \/ \E j \in ahead : Lower(Prefix(selected[j].text, 200))
                                               = Lower(Prefix(y.text, 200))

\* The second candidate ties with the first on score and is longer, so it is
\* selected first; a candidate ranked above a selected one was left out.
C35_Witness ==
    /\ wpc = "sampled" /\ Len(nodes) = 3 /\ Len(selected) = 2
    /\ Signal(nodes[1]) = Signal(nodes[2]) /\ nodes[1].len < nodes[2].len
    /\ selected[1] = nodes[2]
    /\ selected[2] = nodes[3]
    /\ Signal(nodes[1]) > Signal(nodes[3])

\* C36: when the sample is smaller than the sample size, every candidate
\* left out is of a branch with max_per_branch selected candidates or has
\* the first 200 characters, case ignored, of a selected candidate.
C36_GreedyMaximal ==
    (wpc = "sampled" /\ Len(selected) < cfg.sample_size) =>
        \A k \in 1..Len(nodes) :
            nodes[k].comment_id \notin SelectedIds =>
                \/ BranchCount(selected, nodes[k].root_id) >= cfg.max_per_branch
                \/ \E j \in 1..Len(selected) :
                       Lower(Prefix(selected[j].text, 200))
                           = Lower(Prefix(nodes[k].text, 200))

\* A sample of one out of three candidates, below the sample size: one was
\* left out for its branch, the other for its text.
C36_Witness ==
    /\ wpc = "sampled" /\ Len(nodes) = 3 /\ Len(selected) = 1
    /\ cfg.sample_size > 1 /\ cfg.max_per_branch = 1
    /\ \E k \in 1..3 :
           /\ nodes[k].comment_id \notin SelectedIds
           /\ nodes[k].root_id = selected[1].root_id
           /\ Lower(Prefix(nodes[k].text, 200)) # Lower(Prefix(selected[1].text, 200))
    /\ \E k \in 1..3 :
           /\ nodes[k].comment_id \notin SelectedIds
           /\ nodes[k].root_id # selected[1].root_id
           /\ Lower(Prefix(nodes[k].text, 200)) = Lower(Prefix(selected[1].text, 200))

\* a and b agree on the inputs of the score other than field f.
OnlyDiffer(a, b, f) ==
    \A g \in {"depth", "root_pos", "reply_count", "len"} \ {f} : a[g] = b[g]

\* C37: between candidates that differ in one input only, the score does
\* not grow with depth (depth 1 above depth 2 above the rest, equal from
\* depth 3 on) nor with the branch's rank (equal from rank 14 on), does not
\* fall with length (equal from 900 characters on) nor with reply count
\* (equal from 10 on); and a sampled candidate of higher score stands before
\* one of lower score whatever their lengths.
C37_ScoreShape ==
    /\ \A i, j \in 1..Len(nodes) :
           LET a == nodes[i]
               b == nodes[j]
           IN  /\ (OnlyDiffer(a, b, "depth") /\ a.depth < b.depth) =>
                      /\ Signal(a) >= Signal(b)
                      /\ a.depth <= 2 => Signal(a) > Signal(b)
                      /\ a.depth >= 3 => Signal(a) = Signal(b)
               /\ (OnlyDiffer(a, b, "root_pos") /\ a.root_pos < b.root_pos) =>
                      /\ Signal(a) >= Signal(b)
                      /\ a.root_pos >= ORDER_RANKS => Signal(a) = Signal(b)
               /\ (OnlyDiffer(a, b, "len") /\ a.len < b.len) =>
                      /\ Signal(a) <= Signal(b)
                      /\ a.len >= LEN_CAP => Signal(a) = Signal(b)
               /\ (OnlyDiffer(a, b, "reply_count") /\ a.reply_count < b.reply_count) =>
                      /\ Signal(a) <= Signal(b)
                      /\ a.reply_count >= REPLY_CAP => Signal(a) = Signal(b)
    /\ \A i, j \in 1..Len(selected) :
           Signal(selected[i]) > Signal(selected[j]) => i < j

\* Two candidates alike but for lengths of 900 and 1000 characters: the
\* longer one, second in the list, is sampled first.
C37_Witness ==
    /\ wpc = "sampled" /\ Len(nodes) = 2 /\ Len(selected) = 2
    /\ OnlyDiffer(nodes[1], nodes[2], "len")
    /\ nodes[1].len = LEN_CAP /\ nodes[2].len > LEN_CAP
    /\ selected[1] = nodes[2]

(***************************************************************************)
(* The history of a repository and the weekly and monthly runs.            *)
(***************************************************************************)
\* C38: the values returned by get_gh_history_stats are those computed from
\* the daily runs dated on or before the reference date and their entries
\* alone, and they stay the same when a weekly or monthly run of any day is
\* stored or replaced with any ranking.
C38_DailyRunsOnly ==
    stats.feed = "gh" =>
        LET result(runs, entries) ==
                get_gh_history_stats(runs, entries, stats.entity, stats.up_to_day)
            returned == [earliest |-> stats.earliest, streak_days |-> stats.streak_days,
                         seen_before |-> stats.seen_before]
            daily == {r \in gh_runs : r.period = "daily" /\ r.run_date <= stats.up_to_day}
        IN  /\ returned = result(daily, {e \in gh_entries : \E r \in daily : e.run_id = r.id})
            /\ \A day \in HistDays, period \in {"weekly", "monthly"} :
                   \A repos \in {<<>>, <<HistoryRepo("a")>>, <<HistoryRepo("b")>>} :
                       LET t == store_gh_period_run(gh_runs, gh_entries, gh_repos, day,
                                                    period, repos, "live")
                       IN  returned = result(t.runs, t.entries)

\* The repository is in a weekly run before the reference date and in no
\* daily run up to it: the call returns no earliest date.
C38_Witness ==
    /\ stats.feed = "gh" /\ stats.earliest = -1
    /\ \E r \in gh_runs :
           /\ r.period = "weekly" /\ r.run_date < stats.up_to_day
           /\ \E e \in gh_entries : e.run_id = r.id /\ e.repo_id = stats.entity

(***************************************************************************)
(* backfill_existing_gh_pages, one page of docs/ per step, in successive   *)
(* runs (the run lock admits one run at a time).  A run may end at any     *)
(* statement: the connection commits every statement on its own, so the    *)
(* statements of an interrupted import that ran stay in the store.         *)
(***************************************************************************)
MaxPages == 3

HistoricDays == (HistoricDay - MaxPages + 1)..HistoricDay

\* What parse_gh_daily_html reads from the page of a day: the latest page
\* ranks repository a, without description, with a summary; the page before
\* it ranks a and b, b without summary; older pages hold no repository.
HistoricPage(day) ==
    IF day = HistoricDay
    THEN <<[rank |-> 1, name |-> "a", url |-> "u1", description |-> "", language |-> "py",
            stars |-> "5", period_stars |-> "1", summary |-> "s1"]>>
    ELSE IF day = HistoricDay - 1
    THEN <<[rank |-> 1, name |-> "a", url |-> "u1", description |-> "d1",
            language |-> "py", stars |-> "5", period_stars |-> "1", summary |-> "s0"],
           [rank |-> 2, name |-> "b", url |-> "u2", description |-> "d2",
            language |-> "", stars |-> "7", period_stars |-> "2", summary |-> ""]>>
    ELSE <<>>

\* sorted(DOCS_DIR.iterdir(), key=lambda p: p.name), the dated directories
DocsDays == Ascending({d \in HistoricDays : <<"gh", d>> \in pages})

\* for repo in repos: if repo.get("summary") and repo.get("repo_id"):
\* cache_gh_summary_if_missing(...), for the first j repositories
RECURSIVE CacheSummaries(_, _, _, _, _, _)
CacheSummaries(rows, repos_table, repos, day, j, i) ==
    IF i > j THEN rows
    ELSE LET repo == repos[i]
             name == normalize_text(repo.name)
         IN  CacheSummaries(
                 IF repo.summary # "" /\ name # ""
                 THEN cache_gh_summary_if_missing(rows, GhRepoId(repos_table, name),
                                                  repo.summary, day)
                 ELSE rows,
                 repos_table, repos, day, j, i + 1)

\* The body of the loop for one page: store_gh_period_run and the summaries.
\* t holds the four tables.
ImportPage(t, day) ==
    LET repos == HistoricPage(day)
    IN  IF repos = <<>> THEN t
        ELSE LET u == store_gh_period_run(t.runs, t.entries, t.repos, day, "daily", repos,
                                          "backfill")
             IN  [runs |-> u.runs, entries |-> u.entries, repos |-> u.repos,
                  summaries |-> CacheSummaries(t.summaries, u.repos, repos, day,
                                               Len(repos), 1)]

\* The same body ended by an exception after the run upsert, the DELETE and
\* the statements of the first k repositories, and the summaries of the
\* first j (none unless every repository was stored).
ImportPageInterrupted(t, day, k, j) ==
    LET repos == HistoricPage(day)
        runs2 == UpsertGhRun(t.runs, day, "daily", "backfill", Len(repos))
        run_id == GhRunId(runs2, day, "daily")
        u == GhLoop([runs |-> runs2, entries |-> DeleteGhEntries(t.entries, run_id),
                     repos |-> t.repos, raised |-> FALSE, run_id |-> run_id],
                    run_id, SubSeq(repos, 1, k), 1)
    IN  [runs |-> u.runs, entries |-> u.entries, repos |-> u.repos,
         summaries |-> CacheSummaries(t.summaries, u.repos, repos, day, j, 1)]

GhTables ==
    [runs |-> gh_runs, entries |-> gh_entries, repos |-> gh_repos,
     summaries |-> gh_summaries]

BackfillInit ==
    /\ ProcsIdle /\ ThreadIdle /\ QueryIdle
    /\ pages \in SUBSET {<<"gh", d>> : d \in HistoricDays}
    /\ gh_runs = {} /\ gh_entries = {} /\ gh_repos = {}
    /\ hn_runs = {} /\ hn_entries = {} /\ hn_items = {}
    /\ gh_summaries = {} /\ hn_summaries = {} /\ hn_comment_analyses = {}
    /\ calls = 0 /\ last = NoCall /\ repeated = FALSE
    /\ today = 1 /\ ticks = 0 /\ ret = NoRet /\ focus = "none"

backfillFrame ==
    <<hn_runs, hn_entries, hn_items, hn_summaries, hn_comment_analyses, historyVars,
      threadVars, queryVars, conn, stmt, lock_acquired, period_idx, daily_found,
      lock_holder, schema, pages, pushed, emailed, denied>>

\* main reaches backfill_existing_gh_pages(conn) holding the run lock: no
\* other run is under way.
BackfillCall(p) ==
    /\ pc[p] = "idle" /\ \A q \in Procs \ {p} : pc[q] \in {"idle", "done"}
    /\ pc' = Goto(p, "backfill")
    /\ UNCHANGED <<gh_runs, gh_entries, gh_repos, gh_summaries, app_meta, child, wrote>>
    /\ UNCHANGED backfillFrame

\* The test of the flag and of DOCS_DIR
BackfillTest(p) ==
    /\ pc[p] = "backfill"
    /\ IF "gh_backfill_completed" \in app_meta
       THEN pc' = Goto(p, "done") /\ UNCHANGED <<app_meta, wrote>>
       ELSE IF pages = {}
       THEN /\ app_meta' = app_meta \cup {"gh_backfill_completed"}
            /\ wrote' = Wrote(p, {"meta"})
            /\ pc' = Goto(p, "done")
       ELSE pc' = Goto(p, "backfill_page") /\ UNCHANGED <<app_meta, wrote>>
    /\ child' = [child EXCEPT ![p] = 1]
    /\ UNCHANGED <<gh_runs, gh_entries, gh_repos, gh_summaries>>
    /\ UNCHANGED backfillFrame

\* One iteration of the loop over docs/
BackfillPage(p) ==
    /\ pc[p] = "backfill_page" /\ child[p] <= Len(DocsDays)
    /\ LET t == ImportPage(GhTables, DocsDays[child[p]])
       IN  /\ gh_runs' = t.runs /\ gh_entries' = t.entries /\ gh_repos' = t.repos
           /\ gh_summaries' = t.summaries
           /\ wrote' = IF t # GhTables \/ HistoricPage(DocsDays[child[p]]) # <<>>
                       THEN Wrote(p, {"store"}) ELSE wrote
    /\ child' = [child EXCEPT ![p] = @ + 1]
    /\ UNCHANGED <<pc, app_meta>>
    /\ UNCHANGED backfillFrame

\* An iteration that ends the run with an exception part of the way
BackfillPageInterrupted(p) ==
    /\ pc[p] = "backfill_page" /\ child[p] <= Len(DocsDays)
    /\ HistoricPage(DocsDays[child[p]]) # <<>>
    /\ \E k \in 0..Len(HistoricPage(DocsDays[child[p]])) :
       \E j \in 0..(IF k = Len(HistoricPage(DocsDays[child[p]])) THEN k ELSE 0) :
           LET t == ImportPageInterrupted(GhTables, DocsDays[child[p]], k, j)
           IN  /\ gh_runs' = t.runs /\ gh_entries' = t.entries /\ gh_repos' = t.repos
               /\ gh_summaries' = t.summaries
    /\ wrote' = Wrote(p, {"store"})
    /\ pc' = Goto(p, "done")
    /\ UNCHANGED <<app_meta, child>>
    /\ UNCHANGED backfillFrame

\* set_app_meta(conn, "gh_backfill_completed", "1") after the loop
BackfillSetFlag(p) ==
    /\ pc[p] = "backfill_page" /\ child[p] > Len(DocsDays)
    /\ app_meta' = app_meta \cup {"gh_backfill_completed"}
    /\ wrote' = Wrote(p, {"meta"})
    /\ pc' = Goto(p, "done")
    /\ UNCHANGED <<gh_runs, gh_entries, gh_repos, gh_summaries, child>>
    /\ UNCHANGED backfillFrame

\* The run ends between two statements of the backfill.
BackfillInterrupt(p) ==
    /\ pc[p] \in {"backfill", "backfill_page"}
    /\ pc' = Goto(p, "done")
    /\ UNCHANGED <<gh_runs, gh_entries, gh_repos, gh_summaries, app_meta, child, wrote>>
    /\ UNCHANGED backfillFrame

BackfillNext ==
    \E p \in Procs :
        \/ BackfillCall(p) \/ BackfillTest(p) \/ BackfillPage(p)
        \/ BackfillPageInterrupted(p) \/ BackfillSetFlag(p) \/ BackfillInterrupt(p)

SpecBackfill == BackfillInit /\ [][BackfillNext]_vars

\* The tables after one backfill that runs to its end on an empty store.
RECURSIVE Backfilled(_, _, _)
Backfilled(t, days, i) ==
    IF i > Len(days) THEN t ELSE Backfilled(ImportPage(t, days[i]), days, i + 1)

\* C39: when the flag gh_backfill_completed is set the tables hold what one
\* uninterrupted backfill of every page of docs/ stores, whatever runs were
\* interrupted before; and with the flag set no step of a backfill changes
\* the runs, entries, repositories or summaries.
C39_OneTimeBackfill ==
    /\ []("gh_backfill_completed" \in app_meta =>
              GhTables = Backfilled([runs |-> {}, entries |-> {}, repos |-> {},
                                     summaries |-> {}], DocsDays, 1))
    /\ [][("gh_backfill_completed" \in app_meta) =>
              UNCHANGED <<gh_runs, gh_entries, gh_repos, gh_summaries>>]_vars

\* Two pages with repositories; one run stored part of them and ended, a
\* later run stored them again and set the flag.
C39_Witness ==
    /\ "gh_backfill_completed" \in app_meta
    /\ {<<"gh", HistoricDay>>, <<"gh", HistoricDay - 1>>} \subseteq pages
    /\ \E p, q \in Procs :
           /\ p # q /\ "store" \in wrote[p] /\ "meta" \notin wrote[p]
           /\ {"store", "meta"} \subseteq wrote[q]

(***************************************************************************)
(* main: the scrape that fails or finds nothing.                           *)
(***************************************************************************)
GhRunsOf(runs, run_day, period) ==
    {r \in runs : r.run_date = run_day /\ r.period = period}

HnRunsOf(runs, run_day) == {r \in runs : r.run_date = run_day /\ r.feed = "topstories"}

\* C40: storing an empty ranking for today and a period (or the top
\* stories) leaves one Run of count 0 without entries and raises nothing;
\* every iteration of the scrape loop leaves a live Run for today and its
\* period whose entries are as many as its count, of count 0 when the daily
\* scrape failed or found nothing; and so does the top-stories step.
C40_EmptyRanking ==
    /\ [](/\ \A period \in {GITHUB_PERIODS[k] : k \in 1..Len(GITHUB_PERIODS)} :
                LET t == store_gh_period_run(gh_runs, gh_entries, gh_repos, today, period,
                                             <<>>, "live")
                IN  /\ ~t.raised
                    /\ Cardinality(GhRunsOf(t.runs, today, period)) = 1
                    /\ \A r \in GhRunsOf(t.runs, today, period) :
                           /\ r.repo_count = 0
                           /\ \A e \in t.entries : e.run_id # r.id
          /\ LET t == store_hn_run(hn_runs, hn_entries, hn_items, today, <<>>, "live")
             IN  /\ ~t.raised
                 /\ Cardinality(HnRunsOf(t.runs, today)) = 1
                 /\ \A r \in HnRunsOf(t.runs, today) :
                        /\ r.item_count = 0
                        /\ \A e \in t.entries : e.run_id # r.id)
    /\ [][\A p \in Procs :
              /\ period_idx'[p] # period_idx[p] =>
                     LET period == GITHUB_PERIODS[period_idx[p]]
                         stored == GhRunsOf(gh_runs', today, period)
                     IN  /\ Cardinality(stored) = 1
                         /\ \A r \in stored :
                                /\ r.source = "live"
                                /\ Cardinality({e \in gh_entries' : e.run_id = r.id})
                                       = r.repo_count
                                /\ (period = "daily" /\ ~daily_found'[p]) =>
                                       r.repo_count = 0
              /\ (pc[p] = "scrape_hn" /\ pc'[p] = "enrich") =>
                     /\ Cardinality(HnRunsOf(hn_runs', today)) = 1
                     /\ \A r \in HnRunsOf(hn_runs', today) :
                            /\ r.source = "live"
                            /\ Cardinality({e \in hn_entries' : e.run_id = r.id})
                                   = r.item_count]_vars

\* A run whose daily scrape found a ranking has ended; a second run of the
\* same day whose daily scrape found nothing has left the daily Run with
\* count 0 and without entries.
C40_Witness ==
    \E p, q \in Procs :
        /\ p # q /\ pc[p] = "done" /\ daily_found[p]
        /\ pc[q] = "scrape_gh" /\ period_idx[q] = 2 /\ ~daily_found[q]
        /\ \E r \in GhRunsOf(gh_runs, today, "daily") :
               r.repo_count = 0 /\ \A e \in gh_entries : e.run_id # r.id

====
